---- MODULE Spec2Model ----
(***************************************************************************)
(* Verification model of the tax tool in src/taxes: the tax constants      *)
(* lookup and bracket calculator (tax-data.js), the filing computation and *)
(* the step wizard (wizard.js), the gap-question selector                  *)
(* (gap-analysis.js) and the rules evaluation engine (rules.js,            *)
(* compliance.js).                                                         *)
(*                                                                         *)
(* Money is whole currency units.  A rate r of the source is held as the   *)
(* integer r * RateScale, and a product amount * rate as an exact integer  *)
(* in units of 1/RateScale, so that Math.round is decided exactly.         *)
(***************************************************************************)
EXTENDS Integers, Sequences, FiniteSets, TLC

\* ------------------------------------------------------------------------
\* Arithmetic helpers (ECMAScript Math.* on the scaled integers)
\* ------------------------------------------------------------------------

\* rates are held in units of 1/10000 (0.0585 -> 585)
RateScale == 10000

\* the width of the last bracket of every table (Infinity in the source)
Infinity == 2000000000

Min(a, b) == IF a <= b THEN a ELSE b

Max(a, b) == IF a >= b THEN a ELSE b

\* Math.round(n / d) for d > 0: nearest integer, ties towards +Infinity
RoundDiv(n, d) == (2 * n + d) \div (2 * d)

\* Math.floor(n / d) for d > 0
FloorDiv(n, d) == n \div d

\* a || b on numbers: 0 (like undefined) is falsy
OrElse(a, b) == IF a # 0 THEN a ELSE b

\* ------------------------------------------------------------------------
\* tax-data.js: constants tables
\* ------------------------------------------------------------------------

TaxYears == {2023, 2024, 2025}

FilingStatuses == {"single", "mfj", "mfs", "hoh", "qss"}

FEDERAL_DATA ==
  [y \in TaxYears |->
    CASE y = 2023 ->
      [standardDeduction |-> [single |-> 13850, mfj |-> 27700, mfs |-> 13850, hoh |-> 20800, qss |-> 27700],
       brackets |->
         [single |-> << <<11000, 1000>>, <<44725 - 11000, 1200>>, <<95375 - 44725, 2200>>,
                        <<182100 - 95375, 2400>>, <<231250 - 182100, 3200>>,
                        <<578125 - 231250, 3500>>, <<Infinity, 3700>> >>,
          mfj |-> << <<22000, 1000>>, <<89450 - 22000, 1200>>, <<190750 - 89450, 2200>>,
                     <<364200 - 190750, 2400>>, <<462500 - 364200, 3200>>,
                     <<693750 - 462500, 3500>>, <<Infinity, 3700>> >>,
          mfs |-> << <<11000, 1000>>, <<44725 - 11000, 1200>>, <<95375 - 44725, 2200>>,
                     <<182100 - 95375, 2400>>, <<231250 - 182100, 3200>>,
                     <<346875 - 231250, 3500>>, <<Infinity, 3700>> >>,
          hoh |-> << <<15700, 1000>>, <<59850 - 15700, 1200>>, <<95350 - 59850, 2200>>,
                     <<182100 - 95350, 2400>>, <<231250 - 182100, 3200>>,
                     <<578100 - 231250, 3500>>, <<Infinity, 3700>> >>],
       seTaxRate |-> 1530, contrib401kLimit |-> 22500, contribIRALimit |-> 6500,
       contribHSASelf |-> 3850, mileageRate |-> 6550, saltCap |-> 10000,
       ctcAmount |-> 2000, educatorExpense |-> 300, studentLoanMax |-> 2500]
    [] y = 2024 ->
      [standardDeduction |-> [single |-> 14600, mfj |-> 29200, mfs |-> 14600, hoh |-> 21900, qss |-> 29200],
       brackets |->
         [single |-> << <<11600, 1000>>, <<47150 - 11600, 1200>>, <<100525 - 47150, 2200>>,
                        <<191950 - 100525, 2400>>, <<243725 - 191950, 3200>>,
                        <<609350 - 243725, 3500>>, <<Infinity, 3700>> >>,
          mfj |-> << <<23200, 1000>>, <<94300 - 23200, 1200>>, <<201050 - 94300, 2200>>,
                     <<383900 - 201050, 2400>>, <<487450 - 383900, 3200>>,
                     <<731200 - 487450, 3500>>, <<Infinity, 3700>> >>,
          mfs |-> << <<11600, 1000>>, <<47150 - 11600, 1200>>, <<100525 - 47150, 2200>>,
                     <<191950 - 100525, 2400>>, <<243725 - 191950, 3200>>,
                     <<365600 - 243725, 3500>>, <<Infinity, 3700>> >>,
          hoh |-> << <<16550, 1000>>, <<63100 - 16550, 1200>>, <<100500 - 63100, 2200>>,
                     <<191950 - 100500, 2400>>, <<243700 - 191950, 3200>>,
                     <<609350 - 243700, 3500>>, <<Infinity, 3700>> >>],
       seTaxRate |-> 1530, contrib401kLimit |-> 23000, contribIRALimit |-> 7000,
       contribHSASelf |-> 4150, mileageRate |-> 6700, saltCap |-> 10000,
       ctcAmount |-> 2000, educatorExpense |-> 300, studentLoanMax |-> 2500]
    [] y = 2025 ->
      [standardDeduction |-> [single |-> 15000, mfj |-> 30000, mfs |-> 15000, hoh |-> 22500, qss |-> 30000],
       brackets |->
         [single |-> << <<11925, 1000>>, <<48475 - 11925, 1200>>, <<103350 - 48475, 2200>>,
                        <<197300 - 103350, 2400>>, <<250525 - 197300, 3200>>,
                        <<626350 - 250525, 3500>>, <<Infinity, 3700>> >>,
          mfj |-> << <<23850, 1000>>, <<96950 - 23850, 1200>>, <<206700 - 96950, 2200>>,
                     <<394600 - 206700, 2400>>, <<501050 - 394600, 3200>>,
                     <<751600 - 501050, 3500>>, <<Infinity, 3700>> >>,
          mfs |-> << <<11925, 1000>>, <<48475 - 11925, 1200>>, <<103350 - 48475, 2200>>,
                     <<197300 - 103350, 2400>>, <<250525 - 197300, 3200>>,
                     <<375800 - 250525, 3500>>, <<Infinity, 3700>> >>,
          hoh |-> << <<17000, 1000>>, <<64850 - 17000, 1200>>, <<103350 - 64850, 2200>>,
                     <<197300 - 103350, 2400>>, <<250500 - 197300, 3200>>,
                     <<626350 - 250500, 3500>>, <<Infinity, 3700>> >>],
       seTaxRate |-> 1530, contrib401kLimit |-> 23500, contribIRALimit |-> 7000,
       contribHSASelf |-> 4300, mileageRate |-> 7000, saltCap |-> 10000,
       ctcAmount |-> 2000, educatorExpense |-> 300, studentLoanMax |-> 2500]]

CA_BRACKETS_2023 ==
  [single |-> << <<10099, 100>>, <<23942 - 10099, 200>>, <<37788 - 23942, 400>>,
                 <<52455 - 37788, 600>>, <<66295 - 52455, 800>>,
                 <<338639 - 66295, 930>>, <<406364 - 338639, 1030>>,
                 <<677275 - 406364, 1130>>, <<Infinity, 1230>> >>,
   mfj |-> << <<20198, 100>>, <<47884 - 20198, 200>>, <<75576 - 47884, 400>>,
              <<104910 - 75576, 600>>, <<132590 - 104910, 800>>,
              <<677278 - 132590, 930>>, <<812728 - 677278, 1030>>,
              <<1354550 - 812728, 1130>>, <<Infinity, 1230>> >>]

CA_BRACKETS_2024 ==
  [single |-> << <<10412, 100>>, <<24684 - 10412, 200>>, <<38959 - 24684, 400>>,
                 <<54081 - 38959, 600>>, <<68350 - 54081, 800>>,
                 <<349137 - 68350, 930>>, <<418961 - 349137, 1030>>,
                 <<698271 - 418961, 1130>>, <<Infinity, 1230>> >>,
   mfj |-> << <<20824, 100>>, <<49368 - 20824, 200>>, <<77918 - 49368, 400>>,
              <<108162 - 77918, 600>>, <<136700 - 108162, 800>>,
              <<698274 - 136700, 930>>, <<837922 - 698274, 1030>>,
              <<1396542 - 837922, 1130>>, <<Infinity, 1230>> >>]

CALIFORNIA_DATA ==
  [y \in TaxYears |->
    CASE y = 2023 ->
      [standardDeduction |-> [single |-> 5363, mfj |-> 10726, mfs |-> 5363, hoh |-> 10726],
       brackets |-> CA_BRACKETS_2023,
       mentalHealthThreshold |-> 1000000, mentalHealthRate |-> 100,
       rentersCreditAmount |-> [single |-> 60, mfj |-> 120]]
    [] y = 2024 ->
      [standardDeduction |-> [single |-> 5540, mfj |-> 11080, mfs |-> 5540, hoh |-> 11080],
       brackets |-> CA_BRACKETS_2024,
       mentalHealthThreshold |-> 1000000, mentalHealthRate |-> 100,
       rentersCreditAmount |-> [single |-> 60, mfj |-> 120]]
    [] y = 2025 ->
      [standardDeduction |-> [single |-> 5540, mfj |-> 11080, mfs |-> 5540, hoh |-> 11080],
       brackets |-> CA_BRACKETS_2024,
       mentalHealthThreshold |-> 1000000, mentalHealthRate |-> 100,
       rentersCreditAmount |-> [single |-> 60, mfj |-> 120]]]

NY_BRACKETS ==
  [single |-> << <<8500, 400>>, <<11700 - 8500, 450>>, <<13900 - 11700, 525>>,
                 <<80650 - 13900, 585>>, <<215400 - 80650, 625>>,
                 <<1077550 - 215400, 685>>, <<5000000 - 1077550, 965>>,
                 <<25000000 - 5000000, 1030>>, <<Infinity, 1090>> >>,
   mfj |-> << <<17150, 400>>, <<23600 - 17150, 450>>, <<27900 - 23600, 525>>,
              <<161550 - 27900, 585>>, <<323200 - 161550, 625>>,
              <<2155350 - 323200, 685>>, <<5000000 - 2155350, 965>>,
              <<25000000 - 5000000, 1030>>, <<Infinity, 1090>> >>]

NEWYORK_DATA ==
  [y \in TaxYears |->
    [standardDeduction |-> [single |-> 8000, mfj |-> 16050, mfs |-> 8000, hoh |-> 11200],
     brackets |-> NY_BRACKETS]]

\* ------------------------------------------------------------------------
\* tax-data.js: computeTaxFromBrackets, getTaxConstants
\* ------------------------------------------------------------------------

RECURSIVE RoundedBracketSum(_, _)
\* the brackets' amounts, each rounded on its own
RoundedBracketSum(remaining, brackets) ==
  IF remaining <= 0 \/ brackets = <<>> THEN 0
  ELSE LET amt == Min(remaining, Head(brackets)[1])
       IN  RoundDiv(amt * Head(brackets)[2], RateScale)
           + RoundedBracketSum(remaining - amt, Tail(brackets))

\* a bracket tax that rounds bracket by bracket
computeTaxRoundEach(taxableIncome, brackets) == RoundedBracketSum(taxableIncome, brackets)

\* a variant that keeps the tax of the last bracket reached only (tax = amt *
\* rate in place of tax += amt * rate)
RECURSIVE BracketSumLastOnly(_, _)
BracketSumLastOnly(remaining, brackets) ==
  IF brackets = <<>> \/ remaining <= 0 THEN 0
  ELSE LET amt == Min(remaining, Head(brackets)[1])
       IN  IF remaining - amt <= 0 \/ Tail(brackets) = <<>>
           THEN amt * Head(brackets)[2]
           ELSE BracketSumLastOnly(remaining - amt, Tail(brackets))

\* a variant that taxes the whole income at the rate of the first bracket
BracketSumFirstRate(remaining, brackets) ==
  IF brackets = <<>> \/ remaining <= 0 THEN 0 ELSE remaining * Head(brackets)[2]

RECURSIVE BracketSum(_, _)
\* the loop of computeTaxFromBrackets: the tax, in 1/RateScale, on `remaining`
BracketSum(remaining, brackets) ==
  IF brackets = <<>> \/ remaining <= 0 THEN 0
  ELSE LET width == Head(brackets)[1]
           rate  == Head(brackets)[2]
           amt   == Min(remaining, width)
       IN  amt * rate + BracketSum(remaining - amt, Tail(brackets))

\* a variant that cuts the cents off (Math.floor in place of Math.round)
computeTaxFloored(taxableIncome, brackets) ==
  FloorDiv(BracketSum(taxableIncome, brackets), RateScale)

computeTaxFromBrackets(taxableIncome, brackets) ==
  RoundDiv(BracketSum(taxableIncome, brackets), RateScale)

\* names of properties that every object literal inherits
ObjectPrototypeKeys == {"constructor", "toString", "valueOf", "hasOwnProperty"}

InheritedFunction == <<"function">>

\* obj[key] || obj.single
\* a key that is no own property of the object but the name of a property
\* every object inherits reads that property, a function, which is truthy
Lookup(obj, key) ==
  IF key \in DOMAIN obj THEN obj[key]
  ELSE IF key \in ObjectPrototypeKeys THEN InheritedFunction
  ELSE obj.single

\* TABLE[yr] || TABLE[2025]
YearOf(table, yr) == IF yr \in DOMAIN table THEN table[yr] ELSE table[2025]

\* a key that is the filing status itself
StateBracketKeyAsIs(fs) == fs

\* the state tables are keyed 'mfj' for mfj and qss, 'single' otherwise
StateBracketKey(fs) == IF fs = "mfj" \/ fs = "qss" THEN "mfj" ELSE "single"

\* the record getTaxConstants builds from the three tables of the year
TaxConstantsOfYear(fedYear, caYear, nyYear, stateId, fs) ==
  LET fed == [brackets |-> Lookup(fedYear.brackets, fs),
              stdDeduction |-> Lookup(fedYear.standardDeduction, fs),
              seTaxRate |-> fedYear.seTaxRate,
              contrib401kLimit |-> fedYear.contrib401kLimit,
              contribIRALimit |-> fedYear.contribIRALimit,
              contribHSASelf |-> fedYear.contribHSASelf,
              mileageRate |-> fedYear.mileageRate,
              saltCap |-> fedYear.saltCap,
              ctcAmount |-> fedYear.ctcAmount,
              educatorExpense |-> fedYear.educatorExpense,
              studentLoanMax |-> fedYear.studentLoanMax]
      state ==
        IF stateId = "california" THEN
          [kind |-> "california",
           brackets |-> Lookup(caYear.brackets, StateBracketKey(fs)),
           stdDeduction |-> Lookup(caYear.standardDeduction, fs),
           mentalHealthThreshold |-> caYear.mentalHealthThreshold,
           mentalHealthRate |-> caYear.mentalHealthRate,
           rentersCreditAmount |-> caYear.rentersCreditAmount]
        ELSE IF stateId = "newYork" THEN
          [kind |-> "newYork",
           brackets |-> Lookup(nyYear.brackets, StateBracketKey(fs)),
           stdDeduction |-> Lookup(nyYear.standardDeduction, fs),
           mentalHealthThreshold |-> 0,
           mentalHealthRate |-> 0,
           rentersCreditAmount |-> [single |-> 0, mfj |-> 0]]
        ELSE [kind |-> "null"]
  IN  [fed |-> fed, state |-> state]

getTaxConstants(year, stateId, filingStatus) ==
  TaxConstantsOfYear(YearOf(FEDERAL_DATA, OrElse(year, 2025)),
                     YearOf(CALIFORNIA_DATA, OrElse(year, 2025)),
                     YearOf(NEWYORK_DATA, OrElse(year, 2025)),
                     stateId,
                     IF filingStatus = "" THEN "single" ELSE filingStatus)

\* ------------------------------------------------------------------------
\* wizard.js: the session and its records
\* ------------------------------------------------------------------------

\* undefined / null of the source, for values that are records when present
Undefined == [kind |-> "undefined"]

\* the keys of taxSession.manualEntries the code reads; 0 stands for an
\* absent key (every read is `x || 0` or `if (x)`)
ManualFields ==
  {"contribution401k", "contributionIRA", "contributionHSA", "studentLoanInterest",
   "seHealthInsurance", "homeOfficeSqft", "businessMiles", "capitalGains",
   "otherIncome", "mortgageInterest", "saltExtra", "charitableDonations",
   "tuitionPaid", "childcareExpenses"}

NoManualEntries == [f \in ManualFields |-> 0]

\* taxSession.credits = {} : every read is `s.credits.x || 0`
NoCredits == [ctc |-> 0, education |-> 0, renter |-> 0, ev |-> 0, childcare |-> 0]

NoItemized == [mortgage |-> 0, salt |-> 0, charitable |-> 0, medical |-> 0]

\* an extracted income record; a numeric field the document does not carry
\* is 0 (every read is `i.field || 0`).  box12_malformed: box12_codes is
\* present but is not an array (its .some / .filter is not a function).
IncomeRecord(docType, wages, nec, int, div, fedWh, stateWh, mortgage, box12, malformed) ==
  [doc_type |-> docType, wages |-> wages, nonemployee_compensation |-> nec,
   interest_income |-> int, ordinary_dividends |-> div,
   fed_income_tax_withheld |-> fedWh, state_income_tax_withheld |-> stateWh,
   mortgage_interest |-> mortgage, box12_codes |-> box12,
   box12_malformed |-> malformed, docId |-> 0]

\* getStateId
getStateId(s) ==
  IF s.stateOfResidence = "CA" THEN "california"
  ELSE IF s.stateOfResidence = "NY" THEN "newYork" ELSE "null"

\* incomes.filter(i => i.doc_type === t).reduce((sum, i) => sum + (i[field] || 0), 0)
RECURSIVE SumField(_, _, _)
SumField(incomes, docType, field) ==
  IF incomes = <<>> THEN 0
  ELSE (IF docType = "any" \/ Head(incomes).doc_type = docType
        THEN Head(incomes)[field] ELSE 0)
       + SumField(Tail(incomes), docType, field)

\* Math.round(n * (r1 / RateScale) * (r2 / RateScale)) for n >= 0, computed in
\* pieces that stay below 2^31
RoundMul2(n, r1, r2) ==
  LET q  == r1 * r2
      nh == n \div RateScale
      nl == n % RateScale
      qh == q \div RateScale
      ql == q % RateScale
      m  == nh * ql + nl * qh
      x  == RateScale * (m % RateScale) + nl * ql
  IN  nh * qh + (m \div RateScale) + RoundDiv(x, RateScale * RateScale)

\* computeAndRenderTaxes throws (TypeError) at the box 12 scan of a W-2 whose
\* box12_codes is not an array
ComputeThrows(s) ==
  \E k \in 1..Len(s.incomes) :
    s.incomes[k].doc_type = "W-2" /\ s.incomes[k].box12_malformed

\* a self-employment tax on the whole compensation, without the 0.9235
SeTaxOnGross(totalNEC, fed) ==
  IF totalNEC > 0 THEN RoundDiv(totalNEC * OrElse(fed.seTaxRate, 1530), RateScale) ELSE 0

SeTaxOf(totalNEC, fed) ==
  IF totalNEC > 0 THEN RoundMul2(totalNEC, 9235, OrElse(fed.seTaxRate, 1530)) ELSE 0

\* adjustments with the educator expense taken off instead of added
AdjustmentsEducatorSubtracted(s, fed, seDeduction) ==
  seDeduction
  - (IF s.gapAnswers["isEducator"] = "yes" THEN OrElse(fed.educatorExpense, 300) ELSE 0)

AdjustmentsOf(s, fed, seDeduction) ==
  LET m == s.manualEntries
  IN  seDeduction
      + (IF m.contribution401k # 0
         THEN Min(m.contribution401k, OrElse(fed.contrib401kLimit, 23500)) ELSE 0)
      + (IF m.contributionIRA # 0
         THEN Min(m.contributionIRA, OrElse(fed.contribIRALimit, 7000)) ELSE 0)
      + (IF m.contributionHSA # 0
         THEN Min(m.contributionHSA, OrElse(fed.contribHSASelf, 4300)) ELSE 0)
      + (IF m.studentLoanInterest # 0
         THEN Min(m.studentLoanInterest, OrElse(fed.studentLoanMax, 2500)) ELSE 0)
      + (IF m.seHealthInsurance # 0 THEN m.seHealthInsurance ELSE 0)
      + (IF s.gapAnswers["isEducator"] = "yes" THEN OrElse(fed.educatorExpense, 300) ELSE 0)

\* a deduction that takes the larger of the two, whatever the type selected
DeductionOfLarger(s, fed) ==
  Max(fed.stdDeduction,
      s.itemized.mortgage + Min(s.itemized.salt, OrElse(fed.saltCap, 10000))
        + s.itemized.charitable + s.itemized.medical)

DeductionOf(s, fed) ==
  IF s.deductionType = "itemized"
  THEN s.itemized.mortgage + Min(s.itemized.salt, OrElse(fed.saltCap, 10000))
       + s.itemized.charitable + s.itemized.medical
  ELSE fed.stdDeduction

\* taxable income without the floor at zero
TaxableIncomeNoFloor(agi, deduction, homeOfficeDeduction, mileageDeduction) ==
  agi - deduction - homeOfficeDeduction - mileageDeduction

TaxableIncomeOf(agi, deduction, homeOfficeDeduction, mileageDeduction) ==
  Max(0, agi - deduction - homeOfficeDeduction - mileageDeduction)

\* credits taken off the sum of bracket tax and SE tax
TotalFedTaxCreditsLast(fedIncomeTax, totalCredits, seTax) ==
  Max(0, fedIncomeTax + seTax - totalCredits)

TotalFedTaxOf(fedIncomeTax, totalCredits, seTax) ==
  Max(0, fedIncomeTax - totalCredits) + seTax

\* the filing record computeAndRenderTaxes builds from the session and the
\* constants fed and sc of its year, state and filing status
FilingOf(s, stateId, fed, sc) ==
  LET totalW2  == SumField(s.incomes, "W-2", "wages")
      totalNEC == SumField(s.incomes, "1099-NEC", "nonemployee_compensation")
      totalINT == SumField(s.incomes, "1099-INT", "interest_income")
      totalDIV == SumField(s.incomes, "1099-DIV", "ordinary_dividends")
      totalCapGains == s.manualEntries.capitalGains
      otherIncome   == s.manualEntries.otherIncome
      totalIncome == totalW2 + totalNEC + totalINT + totalDIV + totalCapGains + otherIncome
      seTax == SeTaxOf(totalNEC, fed)
      seDeduction == FloorDiv(seTax, 2)
      adjustments == AdjustmentsOf(s, fed, seDeduction)
      agi == totalIncome - adjustments
      stdDeduction == fed.stdDeduction
      deduction == DeductionOf(s, fed)
      homeOfficeDeduction ==
        IF s.manualEntries.homeOfficeSqft # 0 /\ totalNEC > 0
        THEN Min(s.manualEntries.homeOfficeSqft * 5, 1500) ELSE 0
      mileageDeduction ==
        IF s.manualEntries.businessMiles # 0 /\ totalNEC > 0
        THEN RoundDiv(s.manualEntries.businessMiles * OrElse(fed.mileageRate, 7000), RateScale)
        ELSE 0
      taxableIncome ==
        TaxableIncomeOf(agi, deduction, homeOfficeDeduction, mileageDeduction)
      fedIncomeTax == computeTaxFromBrackets(taxableIncome, fed.brackets)
      totalCredits == s.credits.ctc + s.credits.education + s.credits.ev + s.credits.childcare
      fedTaxAfterCredits == Max(0, fedIncomeTax - totalCredits)
      totalFedTax == TotalFedTaxOf(fedIncomeTax, totalCredits, seTax)
      totalFedWithheld == SumField(s.incomes, "any", "fed_income_tax_withheld")
      fedResult == totalFedWithheld - totalFedTax
      totalStateWithheld == SumField(s.incomes, "any", "state_income_tax_withheld")
      caTaxable == Max(0, agi - sc.stdDeduction)
      caBaseTax == computeTaxFromBrackets(caTaxable, sc.brackets)
      mhTax == IF caTaxable > sc.mentalHealthThreshold
               THEN RoundDiv((caTaxable - sc.mentalHealthThreshold) * sc.mentalHealthRate,
                             RateScale)
               ELSE 0
      caCredits == s.credits.renter
      caTax == caBaseTax + mhTax - caCredits
      nyTaxable == Max(0, agi - sc.stdDeduction)
      nyTax == computeTaxFromBrackets(nyTaxable, sc.brackets)
  IN  [filingStatus |-> s.filingStatus,
       totalW2Wages |-> totalW2, totalNEC |-> totalNEC, totalInterest |-> totalINT,
       totalDividends |-> totalDIV, capitalGains |-> totalCapGains,
       otherIncome |-> otherIncome, totalIncome |-> totalIncome,
       adjustments |-> adjustments, agi |-> agi, deduction |-> deduction,
       deductionType |-> s.deductionType, standardDeduction |-> stdDeduction,
       taxableIncome |-> taxableIncome, fedIncomeTax |-> fedIncomeTax, seTax |-> seTax,
       totalCredits |-> totalCredits, fedTaxAfterCredits |-> fedTaxAfterCredits,
       totalFedTax |-> totalFedTax, totalFedWithheld |-> totalFedWithheld,
       fedResult |-> fedResult, totalStateWithheld |-> totalStateWithheld,
       homeOfficeDeduction |-> homeOfficeDeduction, mileageDeduction |-> mileageDeduction,
       ca |-> IF stateId = "california"
              THEN [stdDeduction |-> sc.stdDeduction, taxableIncome |-> caTaxable,
                    baseTax |-> caBaseTax, mhTax |-> mhTax, credits |-> caCredits,
                    tax |-> caTax, result |-> totalStateWithheld - caTax]
              ELSE Undefined,
       ny |-> IF stateId = "newYork"
              THEN [stdDeduction |-> sc.stdDeduction, taxableIncome |-> nyTaxable,
                    tax |-> nyTax, credits |-> 0, result |-> totalStateWithheld - nyTax]
              ELSE Undefined]

\* the filing record computeAndRenderTaxes builds from the session (when it
\* does not throw)
ComputeFiling(s) ==
  FilingOf(s, getStateId(s),
           getTaxConstants(s.taxYear, getStateId(s), s.filingStatus).fed,
           getTaxConstants(s.taxYear, getStateId(s), s.filingStatus).state)

\* the credits record updateCreditsView stores in the session
CreditsOf(s) ==
  LET c == getTaxConstants(s.taxYear, getStateId(s), s.filingStatus)
      ctcTotal == s.childrenUnder17 * OrElse(c.fed.ctcAmount, 2000)
      eduCredit ==
        IF s.gapAnswers["hasTuition"] = "yes" /\ s.manualEntries.tuitionPaid # 0
        THEN Min(s.manualEntries.tuitionPaid, 2500) ELSE 0
      renterCredit ==
        IF s.stateOfResidence = "CA" /\ s.gapAnswers["isRenter"] = "yes"
        THEN (IF c.state.kind # "null"
              THEN c.state.rentersCreditAmount[IF s.filingStatus = "mfj" THEN "mfj" ELSE "single"]
              ELSE 60)
        ELSE 0
      evCredit == IF s.gapAnswers["hasEV"] = "yes" THEN 7500 ELSE 0
      childcareCredit ==
        IF s.manualEntries.childcareExpenses # 0
        THEN RoundDiv(Min(s.manualEntries.childcareExpenses,
                          IF s.childrenUnder17 >= 2 THEN 6000 ELSE 3000) * 2000, RateScale)
        ELSE 0
  IN  [ctc |-> ctcTotal, education |-> eduCredit, renter |-> renterCredit,
       ev |-> evCredit, childcare |-> childcareCredit]

\* ------------------------------------------------------------------------
\* gap-analysis.js: GAP_RULES and getGapQuestions
\* ------------------------------------------------------------------------

\* the table, in declaration order; field "" when the rule has no amount field
GAP_RULES ==
  << [id |-> "has401k", followUp |-> "amount", field |-> "contribution401k"],
     [id |-> "hasIRA", followUp |-> "amount", field |-> "contributionIRA"],
     [id |-> "hasHSA", followUp |-> "amount", field |-> "contributionHSA"],
     [id |-> "hasMortgage", followUp |-> "amount_or_upload", field |-> "mortgageInterest"],
     [id |-> "isRenter", followUp |-> "yesno", field |-> ""],
     [id |-> "hasSALT", followUp |-> "amount", field |-> "saltExtra"],
     [id |-> "hasCharitable", followUp |-> "amount", field |-> "charitableDonations"],
     [id |-> "hasStudentLoan", followUp |-> "amount_or_upload", field |-> "studentLoanInterest"],
     [id |-> "hasTuition", followUp |-> "amount_or_upload", field |-> "tuitionPaid"],
     [id |-> "isEducator", followUp |-> "yesno", field |-> ""],
     [id |-> "hasSoldStocks", followUp |-> "amount_or_upload", field |-> "capitalGains"],
     [id |-> "hasSEHealthInsurance", followUp |-> "amount", field |-> "seHealthInsurance"],
     [id |-> "hasHomeOffice", followUp |-> "amount", field |-> "homeOfficeSqft"],
     [id |-> "hasBusinessMileage", followUp |-> "amount", field |-> "businessMiles"],
     [id |-> "hasEV", followUp |-> "yesno", field |-> ""],
     [id |-> "hasEnergyImprovements", followUp |-> "yesno", field |-> ""],
     [id |-> "hasChildcare", followUp |-> "amount", field |-> "childcareExpenses"],
     [id |-> "hasOtherIncome", followUp |-> "amount", field |-> "otherIncome"] >>

GapIds == {GAP_RULES[k].id : k \in 1..Len(GAP_RULES)}

\* gapAnswers = {} : no key is set
NoGapAnswers == [id \in GapIds |-> "undefined"]

RECURSIVE Box12Scan(_, _)
\* s.incomes.some(i => i.doc_type === 'W-2' && i.box12_codes &&
\*                     i.box12_codes.some(c => codes.includes(c.code) && c.amount > 0))
\* evaluated in order: "true", "false", or "throw" when the scan reaches a W-2
\* whose box12_codes has no .some before any W-2 satisfies it
Box12Scan(incomes, codes) ==
  IF incomes = <<>> THEN "false"
  ELSE LET i == Head(incomes)
       IN  IF i.doc_type = "W-2" /\ i.box12_malformed THEN "throw"
           ELSE IF i.doc_type = "W-2"
                   /\ \E k \in 1..Len(i.box12_codes) :
                        i.box12_codes[k].code \in codes /\ i.box12_codes[k].amount > 0
                THEN "true"
                ELSE Box12Scan(Tail(incomes), codes)

HasDocType(s, t) == \E k \in 1..Len(s.incomes) : s.incomes[k].doc_type = t

Bool(b) == IF b THEN "true" ELSE "false"

\* !x, keeping a throw
NotOf(r) == IF r = "throw" THEN "throw" ELSE IF r = "true" THEN "false" ELSE "true"

\* rule.condition(session): "true", "false" or "throw"
GapCondition(id, s) ==
  CASE id = "has401k" -> NotOf(Box12Scan(s.incomes, {"D", "E", "F", "G", "AA", "BB"}))
    [] id = "hasHSA" -> NotOf(Box12Scan(s.incomes, {"W"}))
    [] id = "hasMortgage" -> Bool(~HasDocType(s, "1098"))
    [] id = "isRenter" -> Bool(s.stateOfResidence = "CA")
    [] id = "hasStudentLoan" -> Bool(~HasDocType(s, "1098-E"))
    [] id = "hasTuition" -> Bool(~HasDocType(s, "1098-T"))
    [] id = "hasSoldStocks" -> Bool(~HasDocType(s, "1099-B"))
    [] id \in {"hasSEHealthInsurance", "hasHomeOffice", "hasBusinessMileage"} ->
         Bool(HasDocType(s, "1099-NEC"))
    [] id = "hasChildcare" -> Bool(s.childrenUnder17 > 0 \/ s.otherDependents > 0)
    [] OTHER -> "true"

\* a filter callback that asks answered questions again
GapKeepsAnswered(rule, s) == GapCondition(rule.id, s) = "true"

\* a filter callback that keeps a question whose condition throws
GapKeepsThrowing(rule, s) ==
  IF s.gapAnswers[rule.id] # "undefined" THEN FALSE
  ELSE GapCondition(rule.id, s) # "false"

\* the filter callback of getGapQuestions for one rule
GapKeeps(rule, s) ==
  IF s.gapAnswers[rule.id] # "undefined" THEN FALSE
  ELSE GapCondition(rule.id, s) = "true"

\* getGapQuestions(session): GAP_RULES.filter(...), as the ids of the rules
\* returned, in order
getGapQuestions(s) ==
  LET kept == SelectSeq(GAP_RULES, LAMBDA rule : GapKeeps(rule, s))
  IN  [k \in 1..Len(kept) |-> kept[k].id]

\* ------------------------------------------------------------------------
\* rules.js and compliance.js: the rule tables and the engines
\* ------------------------------------------------------------------------

SCENARIOS == {"fed-w2", "fed-1099", "ca-w2", "ca-1099"}

\* rules.js RULES in declaration order: id, scenarios and type of each rule
RULES ==
  << [id |-> "dc-01", scenarios |-> {"fed-w2", "ca-w2"}, type |-> "compliance"],
     [id |-> "dc-02", scenarios |-> {"fed-w2", "fed-1099", "ca-w2", "ca-1099"}, type |-> "compliance"],
     [id |-> "dc-03", scenarios |-> {"fed-w2", "fed-1099", "ca-w2", "ca-1099"}, type |-> "compliance"],
     [id |-> "dc-04", scenarios |-> {"fed-w2", "fed-1099", "ca-w2", "ca-1099"}, type |-> "compliance"],
     [id |-> "dc-05", scenarios |-> {"fed-w2", "fed-1099", "ca-w2", "ca-1099"}, type |-> "compliance"],
     [id |-> "id-01", scenarios |-> {"fed-w2", "fed-1099", "ca-w2", "ca-1099"}, type |-> "compliance"],
     [id |-> "id-02", scenarios |-> {"fed-w2", "fed-1099", "ca-w2", "ca-1099"}, type |-> "compliance"],
     [id |-> "id-03", scenarios |-> {"fed-w2", "fed-1099", "ca-w2", "ca-1099"}, type |-> "compliance"],
     [id |-> "id-04", scenarios |-> {"fed-w2", "fed-1099", "ca-w2", "ca-1099"}, type |-> "compliance"],
     [id |-> "id-05", scenarios |-> {"ca-w2", "ca-1099"}, type |-> "compliance"],
     [id |-> "inc-01", scenarios |-> {"fed-w2"}, type |-> "compliance"],
     [id |-> "inc-02", scenarios |-> {"fed-1099"}, type |-> "compliance"],
     [id |-> "inc-03", scenarios |-> {"fed-w2", "fed-1099"}, type |-> "compliance"],
     [id |-> "inc-04", scenarios |-> {"fed-w2", "fed-1099"}, type |-> "compliance"],
     [id |-> "inc-05", scenarios |-> {"fed-w2", "fed-1099", "ca-w2", "ca-1099"}, type |-> "compliance"],
     [id |-> "inc-06", scenarios |-> {"fed-w2", "fed-1099"}, type |-> "compliance"],
     [id |-> "inc-07", scenarios |-> {"fed-w2", "fed-1099"}, type |-> "compliance"],
     [id |-> "inc-08", scenarios |-> {"fed-w2", "fed-1099", "ca-w2", "ca-1099"}, type |-> "compliance"],
     [id |-> "wh-01", scenarios |-> {"fed-w2"}, type |-> "compliance"],
     [id |-> "wh-02", scenarios |-> {"fed-w2"}, type |-> "compliance"],
     [id |-> "wh-03", scenarios |-> {"fed-w2"}, type |-> "compliance"],
     [id |-> "wh-04", scenarios |-> {"fed-w2"}, type |-> "compliance"],
     [id |-> "wh-05", scenarios |-> {"ca-w2"}, type |-> "compliance"],
     [id |-> "wh-06", scenarios |-> {"fed-w2", "fed-1099", "ca-w2", "ca-1099"}, type |-> "compliance"],
     [id |-> "adj-01", scenarios |-> {"fed-1099"}, type |-> "compliance"],
     [id |-> "sav-adj-01", scenarios |-> {"fed-w2", "fed-1099"}, type |-> "savings"],
     [id |-> "sav-adj-02", scenarios |-> {"fed-w2", "fed-1099"}, type |-> "savings"],
     [id |-> "sav-adj-03", scenarios |-> {"fed-w2"}, type |-> "savings"],
     [id |-> "sav-adj-04", scenarios |-> {"fed-w2", "fed-1099"}, type |-> "savings"],
     [id |-> "sav-adj-05", scenarios |-> {"fed-1099"}, type |-> "savings"],
     [id |-> "sav-adj-06", scenarios |-> {"fed-w2", "fed-1099"}, type |-> "savings"],
     [id |-> "ded-01", scenarios |-> {"fed-w2", "fed-1099"}, type |-> "compliance"],
     [id |-> "ded-02", scenarios |-> {"fed-w2", "fed-1099"}, type |-> "compliance"],
     [id |-> "ded-03", scenarios |-> {"ca-w2", "ca-1099"}, type |-> "compliance"],
     [id |-> "sav-ded-01", scenarios |-> {"fed-w2", "fed-1099"}, type |-> "savings"],
     [id |-> "sav-ded-02", scenarios |-> {"fed-w2", "fed-1099"}, type |-> "savings"],
     [id |-> "sav-ded-03", scenarios |-> {"fed-1099"}, type |-> "savings"],
     [id |-> "sav-ded-04", scenarios |-> {"fed-1099"}, type |-> "savings"],
     [id |-> "sav-ded-05", scenarios |-> {"fed-1099"}, type |-> "savings"],
     [id |-> "cr-01", scenarios |-> {"fed-w2", "fed-1099"}, type |-> "compliance"],
     [id |-> "cr-02", scenarios |-> {"fed-w2", "fed-1099"}, type |-> "compliance"],
     [id |-> "cr-03", scenarios |-> {"fed-w2", "fed-1099"}, type |-> "compliance"],
     [id |-> "cr-04", scenarios |-> {"fed-w2", "fed-1099"}, type |-> "compliance"],
     [id |-> "sav-cr-01", scenarios |-> {"ca-w2", "ca-1099"}, type |-> "savings"],
     [id |-> "sav-cr-02", scenarios |-> {"fed-w2", "fed-1099"}, type |-> "savings"],
     [id |-> "sav-cr-03", scenarios |-> {"fed-w2", "fed-1099"}, type |-> "savings"],
     [id |-> "tc-01", scenarios |-> {"fed-w2", "fed-1099"}, type |-> "compliance"],
     [id |-> "tc-02", scenarios |-> {"fed-w2", "fed-1099"}, type |-> "compliance"],
     [id |-> "tc-03", scenarios |-> {"fed-1099"}, type |-> "compliance"],
     [id |-> "tc-04", scenarios |-> {"fed-w2", "fed-1099"}, type |-> "compliance"],
     [id |-> "tc-05", scenarios |-> {"fed-w2", "fed-1099"}, type |-> "compliance"],
     [id |-> "tc-06", scenarios |-> {"fed-w2", "fed-1099"}, type |-> "compliance"],
     [id |-> "ca-01", scenarios |-> {"ca-w2", "ca-1099"}, type |-> "compliance"],
     [id |-> "ca-02", scenarios |-> {"ca-w2", "ca-1099"}, type |-> "compliance"],
     [id |-> "ca-03", scenarios |-> {"ca-w2", "ca-1099"}, type |-> "compliance"],
     [id |-> "ca-04", scenarios |-> {"ca-w2", "ca-1099"}, type |-> "compliance"],
     [id |-> "ca-05", scenarios |-> {"ca-w2", "ca-1099"}, type |-> "compliance"],
     [id |-> "sav-comp-01", scenarios |-> {"fed-1099"}, type |-> "savings"],
     [id |-> "sav-comp-02", scenarios |-> {"ca-w2"}, type |-> "savings"],
     [id |-> "ma-01", scenarios |-> {"fed-w2", "fed-1099", "ca-w2", "ca-1099"}, type |-> "compliance"],
     [id |-> "ma-02", scenarios |-> {"fed-w2", "fed-1099", "ca-w2", "ca-1099"}, type |-> "compliance"],
     [id |-> "ma-03", scenarios |-> {"fed-w2", "fed-1099", "ca-w2", "ca-1099"}, type |-> "compliance"],
     [id |-> "ma-04", scenarios |-> {"fed-w2", "fed-1099", "ca-w2", "ca-1099"}, type |-> "compliance"],
     [id |-> "ma-05", scenarios |-> {"fed-w2", "fed-1099", "ca-w2", "ca-1099"}, type |-> "compliance"],
     [id |-> "ar-01", scenarios |-> {"fed-w2", "fed-1099", "ca-w2", "ca-1099"}, type |-> "compliance"],
     [id |-> "ar-02", scenarios |-> {"fed-w2", "fed-1099", "ca-w2", "ca-1099"}, type |-> "compliance"],
     [id |-> "ar-03", scenarios |-> {"fed-1099"}, type |-> "compliance"],
     [id |-> "ar-04", scenarios |-> {"fed-w2"}, type |-> "compliance"],
     [id |-> "ar-05", scenarios |-> {"fed-w2", "fed-1099", "ca-w2", "ca-1099"}, type |-> "compliance"] >>

\* compliance.js RULES in declaration order: the ids
COMPLIANCE_IDS ==
  << "dc-01", "dc-02", "dc-03", "dc-04", "dc-05", "id-01", "id-02", "id-03",
     "id-04", "id-05", "inc-01", "inc-02", "inc-03", "inc-04", "inc-05", "inc-06",
     "inc-07", "inc-08", "wh-01", "wh-02", "wh-03", "wh-04", "wh-05", "wh-06",
     "ded-01", "ded-02", "ded-03", "ded-04", "ded-05", "tc-01", "tc-02", "tc-03",
     "tc-04", "tc-05", "tc-06", "cr-01", "cr-02", "cr-03", "cr-04", "ca-01",
     "ca-02", "ca-03", "ca-04", "ca-05", "ca-06", "ma-01", "ma-02", "ma-03",
     "ma-04", "ma-05", "ar-01", "ar-02", "ar-03", "ar-04", "ar-05" >>

COMPLIANCE_RULES == [k \in 1..Len(COMPLIANCE_IDS) |-> [id |-> COMPLIANCE_IDS[k]]]

\* what rule.check(state) does on the state under evaluation: it returns a
\* verdict object, or a runtime error is thrown (a missing field is read)
Returned(status) ==
  [kind |-> "return", status |-> status, extracted |-> status = "pass",
   detail |-> "detail of the check"]

Thrown == [kind |-> "throw", message |-> "Cannot read properties of undefined"]

\* an engine that runs the whole table whatever the filter
ApplicableRulesUnfiltered(rules, scenarioFilter) == rules

\* rules.filter(r => r.scenarios.includes(scenarioFilter)); "" is no filter
ApplicableRules(rules, scenarioFilter) ==
  IF scenarioFilter # ""
  THEN SelectSeq(rules, LAMBDA r : scenarioFilter \in r.scenarios)
  ELSE rules

\* a map callback whose catch reports a status of its own
RuleResultCrashed(rule, outcome) ==
  [id |-> rule.id, scenarios |-> rule.scenarios, type |-> rule.type,
   status |-> IF outcome.kind = "return" THEN outcome.status ELSE "error",
   extracted |-> IF outcome.kind = "return" THEN outcome.extracted ELSE FALSE,
   detail |-> IF outcome.kind = "return"
              THEN [prefix |-> "", message |-> outcome.detail]
              ELSE [prefix |-> "Error running check: ", message |-> outcome.message]]

\* a map callback whose catch reports the rule as failed
RuleResultFailed(rule, outcome) ==
  [id |-> rule.id, scenarios |-> rule.scenarios, type |-> rule.type,
   status |-> IF outcome.kind = "return" THEN outcome.status ELSE "fail",
   extracted |-> IF outcome.kind = "return" THEN outcome.extracted ELSE FALSE,
   detail |-> IF outcome.kind = "return"
              THEN [prefix |-> "", message |-> outcome.detail]
              ELSE [prefix |-> "", message |-> outcome.message]]

\* the map callback of runRulesEngine: the try block and the catch block
RuleResult(rule, outcome) ==
  IF outcome.kind = "return"
  THEN [id |-> rule.id, scenarios |-> rule.scenarios, type |-> rule.type,
        status |-> outcome.status, extracted |-> outcome.extracted,
        detail |-> [prefix |-> "", message |-> outcome.detail]]
  ELSE [id |-> rule.id, scenarios |-> rule.scenarios, type |-> rule.type,
        status |-> "skip", extracted |-> FALSE,
        detail |-> [prefix |-> "Error running check: ", message |-> outcome.message]]

\* results.filter(r => statuses has r.status).length
CountStatus(results, statuses) ==
  Cardinality({k \in 1..Len(results) : results[k].status \in statuses})

\* Math.round((points / n) * 100) with points = points2 / 2, in double
\* arithmetic: for n up to the length of the tables the double product falls
\* below a tie only at points / n = 0.575 (57.49999999999999)
ScoreOf(points2, n) ==
  IF points2 * 40 = 23 * 2 * n THEN 57 ELSE RoundDiv(100 * points2, 2 * n)

\* a summary object with its score
SummaryOf(results) ==
  LET passed   == CountStatus(results, {"pass"})
      warnings == CountStatus(results, {"warn"})
      skipped  == CountStatus(results, {"skip"})
      scored   == Len(results) - skipped
  IN  [total |-> Len(results), passed |-> passed,
       failed |-> CountStatus(results, {"fail"}), warnings |-> warnings,
       skipped |-> skipped,
       score |-> IF scored > 0 THEN ScoreOf(2 * passed + warnings, scored) ELSE 0]

OfType(results, type) == SelectSeq(results, LAMBDA r : r.type = type)

\* runRulesEngine on a table of rules; check[id] is what the rule's check does
RunEngine(rules, check, scenarioFilter) ==
  LET applicableRules == ApplicableRules(rules, scenarioFilter)
      results == [k \in 1..Len(applicableRules) |->
                    RuleResult(applicableRules[k], check[applicableRules[k].id])]
      savingsResults == OfType(results, "savings")
  IN  [results |-> results,
       summary |-> SummaryOf(results),
       complianceSummary |-> SummaryOf(OfType(results, "compliance")),
       savingsSummary |->
         [total |-> Len(savingsResults),
          opportunities |-> CountStatus(savingsResults, {"warn"}),
          evaluated |-> Len(savingsResults) - CountStatus(savingsResults, {"skip"}),
          skipped |-> CountStatus(savingsResults, {"skip"})]]

runRulesEngine(check, scenarioFilter) == RunEngine(RULES, check, scenarioFilter)

\* the results in the old format (rules.js runComplianceChecks)
MappedResults(results) ==
  [k \in 1..Len(results) |->
     [id |-> results[k].id, scenarios |-> results[k].scenarios, type |-> results[k].type,
      status |-> results[k].status, extracted |-> results[k].extracted,
      detail |-> results[k].detail, description |-> results[k].detail,
      confidence |-> IF results[k].extracted THEN 1 ELSE 0]]

\* rules.js runComplianceChecks, the wrapper of runRulesEngine, on a table
RunWrapper(rules, check) ==
  LET r == RunEngine(rules, check, "")
  IN  [results |-> MappedResults(r.results), summary |-> r.summary]

\* the map callback of compliance.js runComplianceChecks
ComplianceResult(rule, outcome) ==
  IF outcome.kind = "return"
  THEN [id |-> rule.id, status |-> outcome.status,
        confidence |-> IF outcome.extracted THEN 1 ELSE 0,
        detail |-> [prefix |-> "", message |-> outcome.detail]]
  ELSE [id |-> rule.id, status |-> "skip", confidence |-> 0,
        detail |-> [prefix |-> "Error running check: ", message |-> outcome.message]]

\* compliance.js runComplianceChecks on a table of rules
RunChecks(rules, check) ==
  LET results == [k \in 1..Len(rules) |-> ComplianceResult(rules[k], check[rules[k].id])]
  IN  [results |-> results, summary |-> SummaryOf(results)]

\* the three entry points on their tables
EngineCall(fn, rules, check, scenarioFilter) ==
  CASE fn = "runRulesEngine" -> RunEngine(rules, check, scenarioFilter)
    [] fn = "rules.runComplianceChecks" -> RunWrapper(rules, check)
    [] fn = "compliance.runComplianceChecks" -> RunChecks(rules, check)

TableOf(fn) == IF fn = "compliance.runComplianceChecks" THEN COMPLIANCE_RULES ELSE RULES

\* ------------------------------------------------------------------------
\* wizard.js: state
\* ------------------------------------------------------------------------

TOTAL_STEPS == 8

\* documents one session uploads
MaxDocs == 1

VARIABLES
  taxSession,    \* the session object (wizard.js:9-35)
  extraction,    \* per document, the processDocument call working on it
  gapRendered,   \* ids of the question rows renderGapQuestions last rendered
  genPc,         \* generateAllForms: "idle", "filling" (the fill functions read
                 \* session.filing), "advance" (goToStep(8) is scheduled),
                 \* "disabled" (the call threw with the button disabled)
  engineInput,   \* rules engine: the checks' behaviour on a state, and the filter
  engineResult,  \* rules engine: what the last evaluation returned
  taxCall        \* tax-data.js: the arguments and results of the last calls

wizardVars == <<taxSession, extraction, gapRendered, genPc>>

engineVars == <<engineInput, engineResult, taxCall>>

vars == <<taxSession, extraction, gapRendered, genPc, engineInput, engineResult,
         taxCall>>

\* the session object as constructed, with nothing saved in localStorage
DefaultSession ==
  [currentStep |-> 1, taxYear |-> 2025, filingStatus |-> "single",
   stateOfResidence |-> "", childrenUnder17 |-> 0, otherDependents |-> 0,
   documents |-> <<>>, incomes |-> <<>>,
   gapAnswers |-> NoGapAnswers, manualEntries |-> NoManualEntries,
   deductionType |-> "standard", itemized |-> NoItemized, credits |-> NoCredits,
   filing |-> Undefined]

\* ------------------------------------------------------------------------
\* wizard.js: step hooks
\* ------------------------------------------------------------------------

\* incomes.find(i => i.doc_type === '1098'): its mortgage_interest, 0 if none
RECURSIVE Mortgage1098(_)
Mortgage1098(incomes) ==
  IF incomes = <<>> THEN 0
  ELSE IF Head(incomes).doc_type = "1098" THEN Head(incomes).mortgage_interest
  ELSE Mortgage1098(Tail(incomes))

ItemizedTotal(it) == it.mortgage + Min(it.salt, 10000) + it.charitable + it.medical

\* updateDeductionsView, with the updateCreditsView call that ends it
updateDeductionsView(s) ==
  LET c == getTaxConstants(s.taxYear, getStateId(s), s.filingStatus)
      stdDed == c.fed.stdDeduction
      m == s.manualEntries
      fromDoc == Mortgage1098(s.incomes)
      it == [mortgage |-> IF fromDoc # 0 THEN fromDoc
                          ELSE OrElse(m.mortgageInterest, s.itemized.mortgage),
             salt |-> OrElse(m.saltExtra, s.itemized.salt),
             charitable |-> OrElse(m.charitableDonations, s.itemized.charitable),
             medical |-> s.itemized.medical]
  IN  [s EXCEPT !.itemized = it,
                !.deductionType = IF ItemizedTotal(it) > stdDed THEN "itemized" ELSE "standard",
                !.credits = CreditsOf(s)]

\* a computation that writes into an entry it reads
computeAndRenderTaxesWritingInput(s) ==
  [s EXCEPT !.filing = ComputeFiling(s), !.manualEntries["otherIncome"] = @ + 1]

\* computeAndRenderTaxes: the session after the call; a throw leaves it as it was
computeAndRenderTaxes(s) ==
  IF ComputeThrows(s) THEN s ELSE [s EXCEPT !.filing = ComputeFiling(s)]

\* ------------------------------------------------------------------------
\* wizard.js: handlers
\* ------------------------------------------------------------------------

\* a goToStep without the range check of its first line
GoToStepUnguarded(n) ==
  LET s1 == [taxSession EXCEPT !.currentStep = n]
  IN  /\ taxSession' = CASE n = 5 -> updateDeductionsView(s1)
                         [] n = 6 -> computeAndRenderTaxes(s1)
                         [] OTHER -> s1
      /\ gapRendered' = IF n = 4 THEN getGapQuestions(s1) ELSE gapRendered
      /\ UNCHANGED <<extraction, genPc, engineVars>>

\* goToStep(n)
GoToStep(n) ==
  IF n < 1 \/ n > TOTAL_STEPS
  THEN UNCHANGED vars
  ELSE LET s1 == [taxSession EXCEPT !.currentStep = n]
       IN  /\ taxSession' = CASE n = 5 -> updateDeductionsView(s1)
                              [] n = 6 -> computeAndRenderTaxes(s1)
                              [] OTHER -> s1
           /\ gapRendered' = IF n = 4 THEN getGapQuestions(s1) ELSE gapRendered
           /\ UNCHANGED <<extraction, genPc, engineVars>>

NextStep == GoToStep(taxSession.currentStep + 1)

PrevStep == GoToStep(taxSession.currentStep - 1)

\* handleFiles for one file: the document is pushed and processDocument runs
\* up to its first await (the fetch), which leaves the status 'processing'
UploadFile(limit) ==
  /\ taxSession.currentStep = 3
  /\ Len(taxSession.documents) < limit
  /\ taxSession' = [taxSession EXCEPT !.documents =
        Append(@, [id |-> Len(@) + 1, type |-> "Unknown", status |-> "processing"])]
  /\ extraction' = Append(extraction,
        [pc |-> "fetch", hasData |-> FALSE, extractedData |-> Undefined])
  /\ UNCHANGED <<gapRendered, genPc, engineVars>>

HandleFiles == UploadFile(MaxDocs)

SetDocStatus(s, d, st) == [s EXCEPT !.documents[d].status = st]

\* processDocument: the fetch rejects, or the response is not ok (catch)
FetchFails(d) ==
  /\ d \in 1..Len(extraction)
  /\ extraction[d].pc = "fetch"
  /\ extraction' = [extraction EXCEPT ![d].pc = "done"]
  /\ taxSession' = SetDocStatus(taxSession, d, "error")
  /\ UNCHANGED <<gapRendered, genPc, engineVars>>

\* processDocument: the response is ok, the stream is read
FetchOk(d) ==
  /\ d \in 1..Len(extraction)
  /\ extraction[d].pc = "fetch"
  /\ extraction' = [extraction EXCEPT ![d].pc = "read"]
  /\ UNCHANGED <<taxSession, gapRendered, genPc, engineVars>>

\* processDocument: one event of the stream ('log' events change nothing)
StreamData(d, parsed) ==
  /\ d \in 1..Len(extraction)
  /\ extraction[d].pc = "read"
  /\ extraction' = [extraction EXCEPT ![d].hasData = TRUE,
                                      ![d].extractedData = parsed]
  /\ UNCHANGED <<taxSession, gapRendered, genPc, engineVars>>

StreamError(d) ==
  /\ d \in 1..Len(extraction)
  /\ extraction[d].pc = "read"
  /\ taxSession' = SetDocStatus(taxSession, d, "error")
  /\ UNCHANGED <<extraction, gapRendered, genPc, engineVars>>

\* a replacement that keeps no earlier record at all
WithoutDocDropsAll(incomes, id) == <<>>

RECURSIVE WithoutDoc(_, _)
\* incomes.filter(i => i._docId !== id)
WithoutDoc(incomes, id) ==
  IF incomes = <<>> THEN <<>>
  ELSE (IF Head(incomes).docId # id THEN <<Head(incomes)>> ELSE <<>>)
       \o WithoutDoc(Tail(incomes), id)

\* processDocument: the stream is done
StreamEnd(d) ==
  /\ d \in 1..Len(extraction)
  /\ extraction[d].pc = "read"
  /\ extraction' = [extraction EXCEPT ![d].pc = "done"]
  /\ taxSession' =
       IF extraction[d].hasData
       THEN LET data == [extraction[d].extractedData EXCEPT !.docId = taxSession.documents[d].id]
            IN  [taxSession EXCEPT
                   !.documents[d].status = "processed",
                   !.documents[d].type = data.doc_type,
                   !.incomes = Append(WithoutDoc(@, taxSession.documents[d].id), data)]
       ELSE IF taxSession.documents[d].status # "error"
            THEN SetDocStatus(taxSession, d, "error")
            ELSE taxSession
  /\ UNCHANGED <<gapRendered, genPc, engineVars>>

\* processDocument: reader.read() rejects (catch)
StreamFails(d) ==
  /\ d \in 1..Len(extraction)
  /\ extraction[d].pc = "read"
  /\ extraction' = [extraction EXCEPT ![d].pc = "done"]
  /\ taxSession' = SetDocStatus(taxSession, d, "error")
  /\ UNCHANGED <<gapRendered, genPc, engineVars>>

InSeq(x, sq) == \E k \in 1..Len(sq) : sq[k] = x

\* answerGap(id, value, btnEl): the buttons belong to a rendered question row
AnswerGap(id, value) ==
  /\ taxSession.currentStep = 4
  /\ InSeq(id, gapRendered)
  /\ taxSession' = [taxSession EXCEPT !.gapAnswers[id] = value]
  /\ UNCHANGED <<extraction, gapRendered, genPc, engineVars>>

\* updateManualEntry(field, value), from the follow-up input of a rendered
\* question answered yes; value is parseFloat(text) || 0
UpdateManualEntry(field, value) ==
  /\ taxSession.currentStep = 4
  /\ \E k \in 1..Len(GAP_RULES) :
       /\ GAP_RULES[k].field = field
       /\ InSeq(GAP_RULES[k].id, gapRendered)
       /\ taxSession.gapAnswers[GAP_RULES[k].id] = "yes"
  /\ taxSession' = [taxSession EXCEPT !.manualEntries[field] = value]
  /\ UNCHANGED <<extraction, gapRendered, genPc, engineVars>>

\* selectDeduction(type)
SelectDeduction(type) ==
  /\ taxSession.currentStep = 5
  /\ taxSession' = [taxSession EXCEPT !.deductionType = type]
  /\ UNCHANGED <<extraction, gapRendered, genPc, engineVars>>

\* generateAllForms up to its first await: the filing is computed only when
\* the session has none (a throw there ends the call), then the fill
\* functions read session.filing
GenerateAllForms ==
  /\ taxSession.currentStep = 7
  /\ genPc = "idle"
  /\ LET threw == taxSession.filing = Undefined /\ ComputeThrows(taxSession)
     IN  /\ taxSession' = IF taxSession.filing = Undefined
                          THEN computeAndRenderTaxes(taxSession) ELSE taxSession
         /\ genPc' = IF threw THEN "disabled" ELSE "filling"
  /\ UNCHANGED <<extraction, gapRendered, engineVars>>

\* generateAllForms after its last await: forms were generated (then goToStep(8)
\* is scheduled) or none was
GenerateDone(formsMade) ==
  /\ genPc = "filling"
  /\ genPc' = IF formsMade THEN "advance" ELSE "idle"
  /\ UNCHANGED <<taxSession, extraction, gapRendered, engineVars>>

\* the timer generateAllForms set: goToStep(8)
AutoAdvance ==
  /\ genPc = "advance"
  /\ genPc' = "idle"
  /\ taxSession' = [taxSession EXCEPT !.currentStep = 8]
  /\ UNCHANGED <<extraction, gapRendered, engineVars>>

\* ------------------------------------------------------------------------
\* The wizard, from a fresh session
\* ------------------------------------------------------------------------

\* documents the extraction service returns for an upload
W2Doc == IncomeRecord("W-2", 80000, 0, 0, 0, 9000, 3000, 0, <<>>, FALSE)

NECDoc == IncomeRecord("1099-NEC", 0, 100000, 0, 0, 0, 0, 0, <<>>, FALSE)

WizardDocs == {W2Doc}

\* the questions the user answers, and the amounts typed
WizardGapIds == {"has401k", "isEducator"}

WizardAmounts == {30000}

EngineIdle ==
  /\ engineInput = Undefined
  /\ engineResult = Undefined
  /\ taxCall = Undefined

Init ==
  /\ taxSession = DefaultSession
  /\ extraction = <<>>
  /\ gapRendered = <<>>
  /\ genPc = "idle"
  /\ EngineIdle

Next ==
  \/ NextStep
  \/ PrevStep
  \/ HandleFiles
  \/ \E d \in 1..MaxDocs : FetchFails(d)
  \/ \E d \in 1..MaxDocs : FetchOk(d)
  \/ \E d \in 1..MaxDocs, parsed \in WizardDocs : StreamData(d, parsed)
  \/ \E d \in 1..MaxDocs : StreamError(d)
  \/ \E d \in 1..MaxDocs : StreamEnd(d)
  \/ \E d \in 1..MaxDocs : StreamFails(d)
  \/ \E id \in WizardGapIds, v \in {"yes", "no"} : AnswerGap(id, v)
  \/ \E f \in ManualFields, v \in WizardAmounts : UpdateManualEntry(f, v)
  \/ \E t \in {"standard", "itemized"} : SelectDeduction(t)
  \/ GenerateAllForms
  \/ \E b \in BOOLEAN : GenerateDone(b)
  \/ AutoAdvance

Spec == Init /\ [][Next]_vars

\* ------------------------------------------------------------------------
\* The filing computation, on sessions restored from localStorage
\* ------------------------------------------------------------------------

\* income records a restored session holds
MaxIncomes == 2

FilingDocs == {W2Doc, NECDoc}

\* the sequences of at most n records of docs, each tagged with its position
IncomeSeqs(docs, n) ==
  UNION {{[k \in 1..len |-> [f[k] EXCEPT !.docId = k]] : f \in [1..len -> docs]} : len \in 0..n}

FilingAmounts == {-5000, 30000}

\* manualEntries with at most one amount typed
ManualChoices ==
  {NoManualEntries}
    \cup {[NoManualEntries EXCEPT ![f] = v] : f \in ManualFields, v \in FilingAmounts}

\* gapAnswers with at most one of these questions answered yes
GapChoices ==
  {NoGapAnswers}
    \cup {[NoGapAnswers EXCEPT ![id] = "yes"] : id \in {"isEducator", "hasEV", "isRenter"}}

ItemizedChoices == {NoItemized, [mortgage |-> 14000, salt |-> 12000, charitable |-> 0, medical |-> 0]}

\* loadSaved: every field but documents, filing, rulesResults and
\* generatedForms is taken from the saved session
FilingSessions ==
  {[DefaultSession EXCEPT !.taxYear = y, !.filingStatus = fs, !.stateOfResidence = st,
                          !.childrenUnder17 = ch, !.incomes = inc, !.manualEntries = m,
                          !.gapAnswers = g, !.itemized = it] :
     y \in {2024, 2025}, fs \in {"single", "mfj"}, st \in {"", "CA", "NY"},
     ch \in {0, 2}, inc \in IncomeSeqs(FilingDocs, MaxIncomes), m \in ManualChoices,
     g \in GapChoices, it \in ItemizedChoices}

InitFiling ==
  /\ taxSession \in FilingSessions
  /\ extraction = <<>>
  /\ gapRendered = <<>>
  /\ genPc = "idle"
  /\ EngineIdle

NextFiling ==
  \/ NextStep
  \/ PrevStep
  \/ \E t \in {"standard", "itemized"} : SelectDeduction(t)

SpecFiling == InitFiling /\ [][NextFiling]_vars

\* ------------------------------------------------------------------------
\* The gap questions, on sessions restored from localStorage
\* ------------------------------------------------------------------------

\* income records a restored session holds
MaxGapIncomes == 2

\* a W-2 whose box 12 lists a 401(k) deferral, a W-2 whose box12_codes came
\* back as something that is no array, a 1098 and a 1099-NEC
W2WithBox12 ==
  IncomeRecord("W-2", 80000, 0, 0, 0, 9000, 3000, 0, <<[code |-> "D", amount |-> 5000]>>, FALSE)

W2Malformed == IncomeRecord("W-2", 80000, 0, 0, 0, 9000, 3000, 0, <<>>, TRUE)

Doc1098 == IncomeRecord("1098", 0, 0, 0, 0, 0, 0, 14000, <<>>, FALSE)

GapDocs == {W2WithBox12, W2Malformed, Doc1098, NECDoc}

GapAnswerIds == {"has401k", "isRenter"}

GapSessions ==
  {[DefaultSession EXCEPT !.stateOfResidence = st, !.childrenUnder17 = ch,
                          !.incomes = inc, !.gapAnswers = g] :
     st \in {"", "CA"}, ch \in {0, 2}, inc \in IncomeSeqs(GapDocs, MaxGapIncomes),
     g \in {NoGapAnswers, [NoGapAnswers EXCEPT !["hasIRA"] = "no"],
            [NoGapAnswers EXCEPT !["hasHSA"] = "yes"]}}

InitGap ==
  /\ taxSession \in GapSessions
  /\ extraction = <<>>
  /\ gapRendered = <<>>
  /\ genPc = "idle"
  /\ EngineIdle

NextGap ==
  \/ NextStep
  \/ PrevStep
  \/ \E id \in GapAnswerIds, v \in {"yes", "no"} : AnswerGap(id, v)

SpecGap == InitGap /\ [][NextGap]_vars

\* ------------------------------------------------------------------------
\* The rules engines, on the checks' behaviour on a state
\* ------------------------------------------------------------------------

\* how many checks pass and how many warn on the state under evaluation
MaxPass == 11

MaxWarn == 2

\* how many fail
FailCounts == {0, 8, Len(RULES)}

\* the table position of the check that throws: none, the first rule, wh-05,
\* the savings rule sav-adj-01, the last rule of rules.js
Throwers == {0, 1, 23, 26, Len(RULES)}

\* by table position: the first nPass checks pass, the next nWarn warn, the
\* next nFail fail and the rest skip; the check at position thrower throws
Outcomes(nPass, nWarn, nFail, thrower) ==
  [k \in 1..Len(RULES) |->
     IF k = thrower THEN Thrown
     ELSE IF k <= nPass THEN Returned("pass")
     ELSE IF k <= nPass + nWarn THEN Returned("warn")
     ELSE IF k <= nPass + nWarn + nFail THEN Returned("fail")
     ELSE Returned("skip")]

\* the checks of a table keyed by rule id
CheckOf(rules, outcomes) ==
  [id \in {rules[k].id : k \in 1..Len(rules)} |->
     outcomes[CHOOSE k \in 1..Len(rules) : rules[k].id = id]]

InitEngine ==
  /\ taxSession = DefaultSession
  /\ extraction = <<>>
  /\ gapRendered = <<>>
  /\ genPc = "idle"
  /\ engineInput \in {Outcomes(p, w, f, t) :
                        p \in 0..MaxPass, w \in 0..MaxWarn, f \in FailCounts,
                        t \in Throwers}
  /\ engineResult = Undefined
  /\ taxCall = Undefined

\* a call of one of the engines on the state
Evaluate(fn, scenarioFilter) ==
  /\ engineInput # Undefined
  /\ engineResult' =
       [fn |-> fn, scenarioFilter |-> scenarioFilter,
        value |-> EngineCall(fn, TableOf(fn), CheckOf(TableOf(fn), engineInput),
                             scenarioFilter)]
  /\ UNCHANGED <<engineInput, taxCall, wizardVars>>

RunRulesEngine == \E f \in SCENARIOS \cup {""} : Evaluate("runRulesEngine", f)

RunComplianceChecksWrapper == Evaluate("rules.runComplianceChecks", "")

RunComplianceChecks == Evaluate("compliance.runComplianceChecks", "")

NextEngine ==
  \/ RunRulesEngine
  \/ RunComplianceChecksWrapper
  \/ RunComplianceChecks

SpecEngine == InitEngine /\ [][NextEngine]_vars

\* ------------------------------------------------------------------------
\* Properties
\* ------------------------------------------------------------------------

\* sq without its k-th element
RemoveAt(sq, k) == [j \in 1..(Len(sq) - 1) |-> IF j < k THEN sq[j] ELSE sq[j + 1]]

\* the rule is run by the call: the filter is absent or among the rule's tags
Applies(fn, rule, scenarioFilter) ==
  \/ fn # "runRulesEngine"
  \/ scenarioFilter = ""
  \/ scenarioFilter \in rule.scenarios

\* the positions of the results that carry the id
ResultsOf(results, id) == {k \in 1..Len(results) : results[k].id = id}

\* C1: an exception thrown by one rule's check is trapped. The engine returns
\* its results, the throwing rule has exactly one result, of status 'skip' with
\* the error message in its detail, and the other results are the ones the
\* engine returns when the throwing rule is taken out of the table.
C1_ExceptionTrapped ==
  engineResult # Undefined =>
    LET fn    == engineResult.fn
        flt   == engineResult.scenarioFilter
        table == TableOf(fn)
        check == CheckOf(table, engineInput)
        res   == engineResult.value.results
    IN  /\ Len(res) = Cardinality({t \in 1..Len(table) : Applies(fn, table[t], flt)})
        /\ \A t \in 1..Len(table) :
             (Applies(fn, table[t], flt) /\ check[table[t].id].kind = "throw") =>
               /\ Cardinality(ResultsOf(res, table[t].id)) = 1
               /\ \A k \in ResultsOf(res, table[t].id) :
                    /\ res[k].status = "skip"
                    /\ res[k].detail = [prefix |-> "Error running check: ",
                                        message |-> check[table[t].id].message]
                    /\ RemoveAt(res, k) =
                         EngineCall(fn, RemoveAt(table, t), check, flt).results

\* a rule threw in the middle of a run and a later rule passed
C1_Witness ==
  /\ engineResult # Undefined
  /\ engineResult.fn = "runRulesEngine"
  /\ \E k \in 1..Len(engineResult.value.results) :
       /\ engineResult.value.results[k].detail.prefix = "Error running check: "
       /\ \E j \in 1..Len(engineResult.value.results) :
            j > k /\ engineResult.value.results[j].status = "pass"

\* C2: whenever session.filing is consumed (the tax summary of step 6 is on
\* screen, or the fill functions of generateAllForms read it) it is the filing
\* computation of the session as it is now.
C2_FilingFreshWhenConsumed ==
  (taxSession.currentStep = 6 \/ genPc = "filling") =>
    taxSession.filing = ComputeFiling(taxSession)

\* the session of the worked example: single, 2025, one W-2 with wages 80000
\* and 9000 withheld, nothing else, standard deduction, and a filing computed
C3_Scenario ==
  /\ taxSession.filing # Undefined
  /\ taxSession.taxYear = 2025
  /\ taxSession.filingStatus = "single"
  /\ Len(taxSession.incomes) = 1
  /\ taxSession.incomes[1].doc_type = "W-2"
  /\ taxSession.incomes[1].wages = 80000
  /\ taxSession.incomes[1].fed_income_tax_withheld = 9000
  /\ taxSession.manualEntries = NoManualEntries
  /\ taxSession.filing.adjustments = 0
  /\ taxSession.filing.totalCredits = 0
  /\ taxSession.filing.deductionType = "standard"

\* C3 as stated: in the worked example AGI is 80000, taxable income 65000,
\* federal income tax 9215 and the net federal result -215.
C3_AsStated ==
  C3_Scenario =>
    /\ taxSession.filing.agi = 80000
    /\ taxSession.filing.taxableIncome = 65000
    /\ taxSession.filing.fedIncomeTax = 9215
    /\ taxSession.filing.fedResult = -215

\* C3: in the worked example AGI is 80000, taxable income 65000, federal
\* income tax 9214 (1192.5 + 4386 + 3635.5, rounded once) and the net federal
\* result 9000 - 9214 = -214.
C3_WorkedExample ==
  C3_Scenario =>
    /\ taxSession.filing.agi = 80000
    /\ taxSession.filing.taxableIncome = 65000
    /\ taxSession.filing.fedIncomeTax = 9214
    /\ taxSession.filing.totalFedTax = 9214
    /\ taxSession.filing.totalFedWithheld = 9000
    /\ taxSession.filing.fedResult = -214

C3_Witness == C3_Scenario /\ taxSession.currentStep = 6

AdjustmentFields ==
  {"contribution401k", "contributionIRA", "contributionHSA", "studentLoanInterest",
   "seHealthInsurance"}

C5_TaxableIncomeFloored ==
  taxSession.filing # Undefined =>
    LET f == taxSession.filing
        x == f.agi - f.deduction - f.homeOfficeDeduction - f.mileageDeduction
    IN  /\ f.taxableIncome >= 0
        /\ x >= 0 => f.taxableIncome = x
        /\ x < 0 => f.taxableIncome = 0

\* a filing with a negative AGI
C5_Witness ==
  /\ taxSession.filing # Undefined
  /\ taxSession.filing.agi < 0
  /\ taxSession.filing.taxableIncome = 0

\* C6: total federal tax is max(0, federal income tax - total credits) plus SE
\* tax, hence never below SE tax.
C6_CreditsBeforeSeTax ==
  taxSession.filing # Undefined =>
    LET f == taxSession.filing
        afterCredits == IF f.fedIncomeTax > f.totalCredits
                        THEN f.fedIncomeTax - f.totalCredits ELSE 0
    IN  /\ f.fedTaxAfterCredits = afterCredits
        /\ f.totalFedTax = afterCredits + f.seTax
        /\ f.totalFedTax >= f.seTax

\* credits larger than the bracket tax, with SE tax due
C6_Witness ==
  /\ taxSession.filing # Undefined
  /\ taxSession.filing.seTax > 0
  /\ taxSession.filing.fedIncomeTax > 0
  /\ taxSession.filing.totalCredits > taxSession.filing.fedIncomeTax
  /\ taxSession.filing.totalFedTax = taxSession.filing.seTax

\* score is the integer nearest to 100 * (pass + warn / 2) / scored, ties up
IsRoundedShare(score, passed, warnings, scored) ==
  /\ (2 * score - 1) * scored <= 100 * (2 * passed + warnings)
  /\ 100 * (2 * passed + warnings) < (2 * score + 1) * scored

\* C7: the score of a summary leaves the skip verdicts out and is
\* round(100 * (pass + 0.5 * warn) / non-skip); when every result is skip the
\* score is 0 and skipped = total.
C7_ScoreIsRoundedShare ==
  engineResult # Undefined =>
    LET res      == engineResult.value.results
        sm       == engineResult.value.summary
        passed   == CountStatus(res, {"pass"})
        warnings == CountStatus(res, {"warn"})
        scored   == CountStatus(res, {"pass", "warn", "fail"})
    IN  /\ sm.total = Len(res)
        /\ sm.skipped = Len(res) - scored
        /\ scored > 0 => IsRoundedShare(sm.score, passed, warnings, scored)
        /\ scored = 0 => (sm.score = 0 /\ sm.skipped = sm.total)

\* C8: runRulesEngine with a scenario filter returns one result for each rule
\* tagged with the scenario and none for any other rule (with 'fed-1099', none
\* for wh-05); without a filter it returns one result for every rule.
C8_ScenarioFilter ==
  (engineResult # Undefined /\ engineResult.fn = "runRulesEngine") =>
    LET flt == engineResult.scenarioFilter
        res == engineResult.value.results
    IN  /\ \A t \in 1..Len(RULES) :
             Cardinality(ResultsOf(res, RULES[t].id)) =
               IF flt = "" \/ flt \in RULES[t].scenarios THEN 1 ELSE 0
        /\ \A k \in 1..Len(res) : \E t \in 1..Len(RULES) : res[k].id = RULES[t].id
        /\ flt = "fed-1099" => ResultsOf(res, "wh-05") = {}
        /\ flt = "" => Len(res) = Len(RULES)

C8_Witness ==
  /\ engineResult # Undefined
  /\ engineResult.fn = "runRulesEngine"
  /\ engineResult.scenarioFilter = "fed-1099"
  /\ ResultsOf(engineResult.value.results, "inc-02") # {}
  /\ ResultsOf(engineResult.value.results, "wh-05") = {}

\* C9: once gapAnswers[id] is set it stays set, and getGapQuestions does not
\* return id for any later session, whatever the step taken changes; the
\* question rows rendered from then on do not hold it.
C9_AnsweredNeverAskedAgain ==
  [][\A q \in {getGapQuestions(taxSession')} :
         /\ \A id \in GapIds :
              taxSession.gapAnswers[id] # "undefined" =>
                taxSession'.gapAnswers[id] # "undefined"
         /\ \A k \in 1..Len(q) : taxSession.gapAnswers[q[k]] = "undefined"
         /\ gapRendered' # gapRendered =>
              \A k \in 1..Len(gapRendered') :
                taxSession.gapAnswers[gapRendered'[k]] = "undefined"]_vars

\* has401k was answered, a document arrived, and the questions were rendered
\* again without it
C9_Witness ==
  /\ taxSession.gapAnswers["has401k"] # "undefined"
  /\ taxSession.currentStep = 4
  /\ Len(taxSession.incomes) > 0
  /\ InSeq("hasIRA", gapRendered)
  /\ ~InSeq("has401k", gapRendered)
  /\ GapCondition("has401k", taxSession) = "true"

\* the position of a question in GAP_RULES
GapPos(id) == CHOOSE k \in 1..Len(GAP_RULES) : GAP_RULES[k].id = id

\* C10: getGapQuestions returns exactly the unanswered questions whose
\* condition returns true, in declaration order; a question whose condition
\* throws is left out and the others are still evaluated.
C10_ExactlyApplicableInOrder ==
  LET q == getGapQuestions(taxSession)
  IN  /\ \A id \in GapIds :
           InSeq(id, q) <=> (/\ taxSession.gapAnswers[id] = "undefined"
                             /\ GapCondition(id, taxSession) = "true")
      /\ \A i, j \in 1..Len(q) : i < j => GapPos(q[i]) < GapPos(q[j])
      /\ taxSession.currentStep = 4 /\ taxSession.gapAnswers = NoGapAnswers =>
           gapRendered = q

\* the first condition threw and later questions were rendered
C10_Witness ==
  /\ taxSession.currentStep = 4
  /\ GapCondition("has401k", taxSession) = "throw"
  /\ ~InSeq("has401k", gapRendered)
  /\ InSeq("hasIRA", gapRendered)
  /\ InSeq("hasOtherIncome", gapRendered)

\* C11: the filing computation run again on the session it has just been run
\* on gives the identical filing and leaves every other field of the session
\* as it was.
C11_ComputeTwiceIdentical ==
  (taxSession.currentStep = 6 /\ taxSession.filing # Undefined) =>
    /\ computeAndRenderTaxes(taxSession) = taxSession
    /\ ComputeFiling([taxSession EXCEPT !.filing = Undefined]) = taxSession.filing

\* a filing computed from income, adjustments and credits
C11_Witness ==
  /\ taxSession.currentStep = 6
  /\ taxSession.filing # Undefined
  /\ taxSession.filing.totalIncome > 0
  /\ taxSession.filing.adjustments > 0
  /\ taxSession.filing.totalCredits > 0

\* ------------------------------------------------------------------------
\* Concurrent document extractions, on a session restored at the upload step
\* ------------------------------------------------------------------------

\* documents uploaded while the others are still being extracted
MaxUploads == 2

UploadDocs == {W2Doc, NECDoc}

\* the restored session holds no income record, or one of an earlier upload
InitUpload ==
  /\ taxSession \in {[DefaultSession EXCEPT !.currentStep = 3, !.incomes = inc] :
                       inc \in {<<>>, <<W2Doc>>}}
  /\ extraction = <<>>
  /\ gapRendered = <<>>
  /\ genPc = "idle"
  /\ EngineIdle

NextUpload ==
  \/ UploadFile(MaxUploads)
  \/ \E d \in 1..MaxUploads : FetchFails(d)
  \/ \E d \in 1..MaxUploads : FetchOk(d)
  \/ \E d \in 1..MaxUploads, parsed \in UploadDocs : StreamData(d, parsed)
  \/ \E d \in 1..MaxUploads : StreamError(d)
  \/ \E d \in 1..MaxUploads : StreamEnd(d)
  \/ \E d \in 1..MaxUploads : StreamFails(d)

SpecUpload == InitUpload /\ [][NextUpload]_vars

\* C12: the income records never hold two records of one document id, and a
\* step that changes them removes the records of one document, adds that
\* document's new record at the end and leaves the other records as they
\* were, in every interleaving of the running extractions.
C12_OneRecordPerDocument ==
  [][\A new \in {taxSession'.incomes} :
       /\ \A i, j \in 1..Len(new) : i # j => new[i].docId # new[j].docId
       /\ new # taxSession.incomes =>
            \E d \in 1..Len(taxSession.documents) :
              /\ Len(new) > 0
              /\ new[Len(new)].docId = taxSession.documents[d].id
              /\ SubSeq(new, 1, Len(new) - 1) =
                   SelectSeq(taxSession.incomes,
                             LAMBDA r : r.docId # taxSession.documents[d].id)]_vars

\* two extractions ran side by side and the later upload finished first, next
\* to the record of an earlier session
C12_Witness ==
  /\ Len(taxSession.incomes) = 3
  /\ taxSession.incomes[1].docId = 0
  /\ taxSession.incomes[2].docId = 2
  /\ taxSession.incomes[3].docId = 1
  /\ taxSession.documents[1].status = "processed"
  /\ taxSession.documents[2].status = "processed"

\* ------------------------------------------------------------------------
\* tax-data.js: computeTaxFromBrackets called on one fixed bracket table
\* ------------------------------------------------------------------------

\* how many bracket boundaries of a table the incomes are taken around
MaxBoundaries == 3

TaxStateIds == {"", "california", "newYork"}

\* the bracket tables of tax-data.js, named by year, state id ("" for the
\* federal table) and filing status
TaxTables == TaxYears \X TaxStateIds \X FilingStatuses

BracketsOf(table) ==
  LET c == getTaxConstants(table[1], table[2], table[3])
  IN  IF table[2] = "" THEN c.fed.brackets ELSE c.state.brackets

\* the upper end of bracket i: the widths of brackets 1..i added up
RECURSIVE UpperEnd(_, _)
UpperEnd(brackets, i) ==
  IF i = 0 THEN 0 ELSE brackets[i][1] + UpperEnd(brackets, i - 1)

\* taxable incomes: nothing or less, a few dollars, and amounts at and just
\* above the first boundaries of the table
TaxIncomes(brackets) ==
  {-1, 0, 1, 5, 10} \cup
  {UpperEnd(brackets, i) + e : i \in 1..Min(MaxBoundaries, Len(brackets) - 1),
                               e \in {0, 1, 100}}

TaxCallOf(brackets, income) ==
  [income |-> income, tax |-> computeTaxFromBrackets(income, brackets)]

InitBrackets ==
  /\ taxSession = DefaultSession
  /\ extraction = <<>>
  /\ gapRendered = <<>>
  /\ genPc = "idle"
  /\ engineInput = Undefined
  /\ engineResult = Undefined
  /\ taxCall \in {[table |-> t, calls |-> <<>>] : t \in TaxTables}

\* one call; the state keeps the last two calls on the table
ComputeTax(income) ==
  /\ taxCall' = [taxCall EXCEPT !.calls =
                   IF Len(@) = 0 THEN <<TaxCallOf(BracketsOf(taxCall.table), income)>>
                   ELSE <<@[Len(@)], TaxCallOf(BracketsOf(taxCall.table), income)>>]
  /\ UNCHANGED <<wizardVars, engineInput, engineResult>>

NextBrackets == \E income \in TaxIncomes(BracketsOf(taxCall.table)) : ComputeTax(income)

SpecBrackets == InitBrackets /\ [][NextBrackets]_vars

\* C13: on a fixed bracket table, of two calls the one with the larger taxable
\* income never returns the smaller tax.
C13_TaxNonDecreasing ==
  (taxCall # Undefined /\ Len(taxCall.calls) = 2) =>
    LET a == taxCall.calls[1]  b == taxCall.calls[2]
    IN  a.income <= b.income => a.tax <= b.tax

C13_Witness ==
  /\ taxCall # Undefined
  /\ Len(taxCall.calls) = 2
  /\ taxCall.calls[1].income > 0
  /\ taxCall.calls[1].income < taxCall.calls[2].income
  /\ taxCall.calls[1].tax < taxCall.calls[2].tax
  /\ \E i \in 1..MaxBoundaries :
       /\ taxCall.calls[1].income <= UpperEnd(BracketsOf(taxCall.table), i)
       /\ taxCall.calls[2].income > UpperEnd(BracketsOf(taxCall.table), i)

BracketIndexes == UNION {1..Len(BracketsOf(t)) : t \in TaxTables}

\* the calls of the state lie in bracket i of the table: the first income is
\* not below the bracket's lower end, the second is larger and not above its
\* upper end
InBracket(i) ==
  /\ taxCall # Undefined
  /\ Len(taxCall.calls) = 2
  /\ i \in 1..Len(BracketsOf(taxCall.table))
  /\ UpperEnd(BracketsOf(taxCall.table), i - 1) <= taxCall.calls[1].income
  /\ taxCall.calls[1].income < taxCall.calls[2].income
  /\ taxCall.calls[2].income <= UpperEnd(BracketsOf(taxCall.table), i)

\* the increase of the tax between the two calls, and the increase of the
\* income times the rate of bracket i, both in 1/RateScale
TaxIncrease == (taxCall.calls[2].tax - taxCall.calls[1].tax) * RateScale

IncomeTimesRate(i) ==
  (taxCall.calls[2].income - taxCall.calls[1].income) * BracketsOf(taxCall.table)[i][2]

\* C14 as stated: when x and x + d lie in the same bracket, the tax at x + d
\* less the tax at x equals exactly d times the bracket's rate.
C14_AsStated ==
  \A i \in BracketIndexes : InBracket(i) => TaxIncrease = IncomeTimesRate(i)

\* C14: when x and x + d lie in the same bracket, the tax at x + d less the
\* tax at x differs from d times the bracket's rate by less than one dollar,
\* and equals it exactly when d times the rate is a whole number of dollars.
C14_MarginalWithinRounding ==
  \A i \in BracketIndexes : InBracket(i) =>
    /\ TaxIncrease - IncomeTimesRate(i) < RateScale
    /\ IncomeTimesRate(i) - TaxIncrease < RateScale
    /\ IncomeTimesRate(i) % RateScale = 0 => TaxIncrease = IncomeTimesRate(i)

C14_Witness ==
  \E i \in BracketIndexes \ {1} :
    /\ InBracket(i)
    /\ IncomeTimesRate(i) % RateScale = 0
    /\ TaxIncrease = IncomeTimesRate(i)
    /\ TaxIncrease > 0

\* C15: a call with a taxable income of 0 returns 0 on every table, and on the
\* federal 2025 single table the call at the first boundary, 11925, returns
\* 1193 and the call at the second, 48475, returns 5579.
C15_ExactAtBoundaries ==
  taxCall # Undefined =>
    \A k \in 1..Len(taxCall.calls) :
      LET call == taxCall.calls[k]
          fedSingle2025 == BracketsOf(taxCall.table) = getTaxConstants(2025, "", "single").fed.brackets
      IN  /\ call.income = 0 => call.tax = 0
          /\ (fedSingle2025 /\ call.income = 11925) => call.tax = 1193
          /\ (fedSingle2025 /\ call.income = 48475) => call.tax = 5579

C15_Witness ==
  /\ taxCall # Undefined
  /\ taxCall.table = <<2025, "", "single">>
  /\ taxCall.calls = <<[income |-> 11925, tax |-> 1193], [income |-> 48475, tax |-> 5579]>>

\* the session has no adjustment but the self-employment deduction
OnlySeAdjustment ==
  /\ taxSession.manualEntries = NoManualEntries
  /\ taxSession.gapAnswers["isEducator"] # "yes"

\* C16: the self-employment tax of a filing is 0.9235 times the total
\* 1099-NEC compensation times the SE tax rate, rounded, and the deduction it
\* brings is half of it, rounded down: a compensation of 100000 gives 14130
\* and 7065, and no 1099-NEC compensation gives 0 and 0.
C16_SeTaxAndDeduction ==
  taxSession.filing # Undefined =>
    LET f == taxSession.filing
        rate == getTaxConstants(taxSession.taxYear, "", taxSession.filingStatus).fed.seTaxRate
    IN  /\ f.totalNEC % 1000 = 0 =>
             f.seTax = RoundDiv((f.totalNEC \div 1000) * ((9235 * rate) \div 10), RateScale)
        /\ f.totalNEC = 100000 => f.seTax = 14130
        /\ f.totalNEC = 0 => f.seTax = 0
        /\ OnlySeAdjustment =>
             /\ f.adjustments = FloorDiv(f.seTax, 2)
             /\ f.totalNEC = 100000 => f.adjustments = 7065
             /\ f.totalNEC = 0 => f.adjustments = 0

C16_Witness ==
  /\ taxSession.filing # Undefined
  /\ OnlySeAdjustment
  /\ taxSession.filing.totalNEC = 100000
  /\ taxSession.filing.seTax = 14130
  /\ taxSession.filing.adjustments = 7065

\* ------------------------------------------------------------------------
\* tax-data.js: getTaxConstants called with known, absent and unknown inputs
\* ------------------------------------------------------------------------

\* years: absent (0), before, in and after the years of FEDERAL_DATA
CallYears == {0, 2022, 2026} \cup TaxYears

\* state ids: null (""), the two known ones, and unknown ones
CallStateIds == {"", "california", "newYork", "texas", "CA"}

\* filing statuses: absent (""), the known ones, and unknown ones
CallFilingStatuses == {"", "widow", "constructor"} \cup FilingStatuses

InitConstants ==
  /\ taxSession = DefaultSession
  /\ extraction = <<>>
  /\ gapRendered = <<>>
  /\ genPc = "idle"
  /\ engineInput = Undefined
  /\ engineResult = Undefined
  /\ taxCall = Undefined

GetTaxConstants(year, stateId, filingStatus) ==
  /\ taxCall' = [year |-> year, stateId |-> stateId, filingStatus |-> filingStatus,
                 value |-> getTaxConstants(year, stateId, filingStatus)]
  /\ UNCHANGED <<wizardVars, engineInput, engineResult>>

NextConstants ==
  \E year \in CallYears, stateId \in CallStateIds, filingStatus \in CallFilingStatuses :
    GetTaxConstants(year, stateId, filingStatus)

SpecConstants == InitConstants /\ [][NextConstants]_vars

\* the bracket tables of FEDERAL_DATA
FedBracketTables ==
  {FEDERAL_DATA[y].brackets[k] : y \in TaxYears, k \in {"single", "mfj", "mfs", "hoh"}}

\* C17: every call returns federal constants with a bracket table and a
\* standard deduction; a year that is absent or not in the data gives the
\* constants of 2025, a filing status that is absent or not known gives the
\* single bracket table and the single standard deduction, and a state id
\* that is not known gives null state constants.
C17_AlwaysUsableDefault ==
  taxCall # Undefined =>
    LET fed == taxCall.value.fed
        yr == IF taxCall.year \in TaxYears THEN taxCall.year ELSE 2025
    IN  /\ \E table \in FedBracketTables : fed.brackets = table
        /\ fed.stdDeduction > 0
        /\ taxCall.year \notin TaxYears =>
             fed = getTaxConstants(2025, taxCall.stateId, taxCall.filingStatus).fed
        /\ taxCall.filingStatus \notin FilingStatuses =>
             /\ fed.brackets = FEDERAL_DATA[yr].brackets.single
             /\ fed.stdDeduction = FEDERAL_DATA[yr].standardDeduction.single
        /\ taxCall.stateId \notin {"california", "newYork"} =>
             taxCall.value.state = [kind |-> "null"]

StateData(stateId) == IF stateId = "california" THEN CALIFORNIA_DATA ELSE NEWYORK_DATA

\* C18: a call for California or New York and a year of the data returns the
\* state's single bracket table of that year for married filing separately
\* and head of household, and its married-filing-jointly table for
\* qualifying surviving spouse.
C18_StateBracketMapping ==
  (/\ taxCall # Undefined
   /\ taxCall.stateId \in {"california", "newYork"}
   /\ taxCall.year \in TaxYears) =>
    LET tables == StateData(taxCall.stateId)[taxCall.year].brackets
    IN  /\ taxCall.filingStatus \in {"mfs", "hoh"} =>
             taxCall.value.state.brackets = tables.single
        /\ taxCall.filingStatus = "qss" => taxCall.value.state.brackets = tables.mfj

C18_Witness ==
  /\ taxCall # Undefined
  /\ taxCall.stateId = "california"
  /\ taxCall.year = 2023
  /\ taxCall.filingStatus = "qss"
  /\ taxCall.value.state.brackets = CALIFORNIA_DATA[2023].brackets.mfj
  /\ CALIFORNIA_DATA[2023].brackets.mfj # CALIFORNIA_DATA[2023].brackets.single

\* ------------------------------------------------------------------------
\* rules.js: the rules on a state without income records and without filing
\* ------------------------------------------------------------------------

\* how many documents the state holds at most
MaxStateDocs == 3

DocStatuses == {"processing", "processed", "error"}

\* { documents, incomes: [], filing: null }
NoDataStates ==
  UNION {{[documents |-> d, incomes |-> <<>>, filing |-> Undefined] :
            d \in [1..n -> DocStatuses]} : n \in 0..MaxStateDocs}

\* what the check of a rule of rules.js returns on such a state: dc-01 finds
\* no W-2 and warns, dc-02 skips without documents, passes when all are
\* processed and fails otherwise, id-04 reads the filing status with its
\* default and passes, sav-adj-01 finds no 401(k) code and warns, ar-05 finds
\* at most one document type and passes; every other check returns skip at
\* its guard on the incomes, the totals or the filing
VerdictWithoutData(id, s) ==
  CASE id = "dc-01" -> "warn"
    [] id = "dc-02" ->
         IF Len(s.documents) = 0 THEN "skip"
         ELSE IF \A k \in 1..Len(s.documents) : s.documents[k] = "processed" THEN "pass"
         ELSE "fail"
    [] id = "id-04" -> "pass"
    [] id = "sav-adj-01" -> "warn"
    [] id = "ar-05" -> "pass"
    [] OTHER -> "skip"

ChecksWithoutData(s) ==
  [id \in {RULES[k].id : k \in 1..Len(RULES)} |-> Returned(VerdictWithoutData(id, s))]

InitNoData ==
  /\ taxSession = DefaultSession
  /\ extraction = <<>>
  /\ gapRendered = <<>>
  /\ genPc = "idle"
  /\ engineInput \in NoDataStates
  /\ engineResult = Undefined
  /\ taxCall = Undefined

\* runRulesEngine(state, scenarioFilter)
RunRulesEngineOnState ==
  \E f \in SCENARIOS \cup {""} :
    /\ engineResult' = [fn |-> "runRulesEngine", scenarioFilter |-> f,
                        value |-> runRulesEngine(ChecksWithoutData(engineInput), f)]
    /\ UNCHANGED <<engineInput, taxCall, wizardVars>>

\* rules.js runComplianceChecks(state)
RunWrapperOnState ==
  /\ engineResult' = [fn |-> "rules.runComplianceChecks", scenarioFilter |-> "",
                      value |-> RunWrapper(RULES, ChecksWithoutData(engineInput))]
  /\ UNCHANGED <<engineInput, taxCall, wizardVars>>

NextNoData == RunRulesEngineOnState \/ RunWrapperOnState

SpecNoData == InitNoData /\ [][NextNoData]_vars

\* C19: on a state with no income records, no documents and no filing every
\* rule's verdict is skip, so that the score is 0 and no result is scored.
C19_EveryRuleSkipsWithoutData ==
  (engineResult # Undefined /\ engineInput.documents = <<>>) =>
    LET v == engineResult.value
    IN  /\ \A k \in 1..Len(v.results) : v.results[k].status = "skip"
        /\ v.summary.score = 0
        /\ v.summary.skipped = v.summary.total

\* C20: the filing computed at the review step carries the deduction of the
\* type selected in the session: the itemized total (mortgage, SALT up to the
\* cap, charitable, medical) when 'itemized' is selected, even when it is the
\* smaller amount, and the standard deduction otherwise, even when the
\* itemized total is larger.
C20_DeductionTypeApplied ==
  (taxSession.currentStep = 6 /\ taxSession.filing # Undefined) =>
    LET fed == getTaxConstants(taxSession.taxYear, "", taxSession.filingStatus).fed
        it == taxSession.itemized
        f == taxSession.filing
    IN  /\ f.deductionType = taxSession.deductionType
        /\ taxSession.deductionType = "itemized" =>
             f.deduction = it.mortgage + Min(it.salt, fed.saltCap) + it.charitable + it.medical
        /\ taxSession.deductionType = "standard" => f.deduction = fed.stdDeduction

C20_Witness ==
  /\ taxSession.currentStep = 6
  /\ taxSession.filing # Undefined
  /\ taxSession.deductionType = "itemized"
  /\ taxSession.itemized.salt > 10000
  /\ taxSession.filing.deduction > 0
  /\ taxSession.filing.deduction < taxSession.filing.standardDeduction

\* ------------------------------------------------------------------------
\* rules.js: the checks that recompute values of the filing
\* ------------------------------------------------------------------------

\* rules.js FED_BRACKETS: the federal 2025 single table
FED_BRACKETS ==
  << <<11925, 1000>>, <<48475 - 11925, 1200>>, <<103350 - 48475, 2200>>,
     <<197300 - 103350, 2400>>, <<250525 - 197300, 3200>>,
     <<626350 - 250525, 3500>>, <<Infinity, 3700>> >>

\* rules.js computeFedTax
computeFedTax(taxable) == RoundDiv(BracketSum(taxable, FED_BRACKETS), RateScale)

\* rules.js approxEqual, on values that are present
approxEqual(a, b, tolerance) == (IF a >= b THEN a - b ELSE b - a) <= tolerance

\* the state runRulesCheck hands to the engine
RulesStateOf(s) == [documents |-> s.documents, incomes |-> s.incomes, filing |-> s.filing]

\* check of tc-04 'Total Tax Computed'
Tc04Check(s) ==
  IF s.filing = Undefined THEN "skip"
  ELSE LET expected == OrElse(s.filing.fedIncomeTax, 0) + OrElse(s.filing.seTax, 0)
           actual == OrElse(s.filing.totalFedTax, 0)
       IN  IF approxEqual(actual, expected, 5) THEN "pass" ELSE "fail"

\* check of tc-02 'Federal Tax Brackets Applied'
Tc02Check(s) ==
  IF s.filing = Undefined THEN "skip"
  ELSE IF s.filing.taxableIncome = 0 THEN "skip"
  ELSE LET expected == computeFedTax(s.filing.taxableIncome)
           actual == OrElse(s.filing.fedIncomeTax, 0)
       IN  IF approxEqual(actual, expected, 5) THEN "pass" ELSE "fail"

\* check of inc-06 'Total Income Computed'
Inc06Check(s) ==
  LET total == SumField(s.incomes, "W-2", "wages")
               + SumField(s.incomes, "1099-NEC", "nonemployee_compensation")
               + SumField(s.incomes, "1099-INT", "interest_income")
               + SumField(s.incomes, "1099-DIV", "ordinary_dividends")
      reported == IF s.filing = Undefined THEN 0 ELSE OrElse(s.filing.totalIncome, 0)
  IN  IF total = 0 THEN "skip"
      ELSE IF approxEqual(total, reported, 1) THEN "pass" ELSE "fail"

\* the filing of the session was computed from the session as it is
FilingJustComputed == taxSession.currentStep = 6 /\ taxSession.filing # Undefined

\* C21: on the filing computed from the session, rule tc-04 passes, whatever
\* credits apply.
C21_Tc04PassesOnComputedFiling ==
  FilingJustComputed => Tc04Check(RulesStateOf(taxSession)) = "pass"

\* C22: on the filing computed from the session, rule tc-02 passes for every
\* tax year and filing status.
C22_Tc02PassesOnComputedFiling ==
  (FilingJustComputed /\ taxSession.filing.taxableIncome > 0) =>
    Tc02Check(RulesStateOf(taxSession)) = "pass"

\* C23: on the filing computed from a session with document income, rule
\* inc-06 passes, also when capital gains or other income were typed in.
C23_Inc06PassesOnComputedFiling ==
  (FilingJustComputed /\ taxSession.incomes # <<>>) =>
    Inc06Check(RulesStateOf(taxSession)) = "pass"

\* the session with the follow-up amount of every question answered no taken
\* out: what the session holds when those questions were answered no at once
WithoutDeclinedAmounts(s) ==
  [s EXCEPT !.manualEntries =
     [f \in DOMAIN @ |->
        IF \E k \in 1..Len(GAP_RULES) :
             GAP_RULES[k].field = f /\ s.gapAnswers[GAP_RULES[k].id] = "no"
        THEN 0 ELSE @[f]]]

\* C24: an amount typed into the follow-up field of a question that is now
\* answered no does not affect the computed filing: the filing is the one
\* of the session without that amount.
C24_DeclinedAmountIgnored ==
  (FilingJustComputed /\ ~ComputeThrows(taxSession)) =>
    taxSession.filing = ComputeFiling(WithoutDeclinedAmounts(taxSession))

\* the type updateDeductionsView selects for the session
RecommendedType(s) == updateDeductionsView(s).deductionType

\* at the deductions step or past it the session holds the other type than
\* the one the view selected on entry: the user chose it with selectDeduction
ExplicitlySelected ==
  /\ taxSession.currentStep >= 5
  /\ taxSession.deductionType # RecommendedType(taxSession)

\* C25: a deduction type the user selected stays in effect while the user
\* navigates between the steps; going to another step never changes
\* session.deductionType.
C25_SelectionSurvivesNavigation ==
  [][(ExplicitlySelected /\ taxSession'.currentStep # taxSession.currentStep)
       => taxSession'.deductionType = taxSession.deductionType]_vars

\* C26: the state tax of a computed filing is never negative, so that the
\* state result never exceeds the state tax withheld.
C26_StateTaxNotNegative ==
  FilingJustComputed =>
    LET f == taxSession.filing
    IN  /\ f.ca # Undefined => (f.ca.tax >= 0 /\ f.ca.result <= f.totalStateWithheld)
        /\ f.ny # Undefined => (f.ny.tax >= 0 /\ f.ny.result <= f.totalStateWithheld)

\* C27: an extraction that terminates leaves its document 'processed' or
\* 'error'; a document whose stream reported an error event (its status is
\* 'error' while the stream is read) ends 'error' and adds no income record,
\* and a document ends 'processed' only with data and without an error event.
C27_ErrorEventEndsInError ==
  [][\A d \in 1..Len(extraction) :
       (extraction[d].pc = "read" /\ extraction'[d].pc = "done") =>
         LET before == taxSession.documents[d].status
             after == taxSession'.documents[d].status
         IN  /\ after \in {"processed", "error"}
             /\ before = "error" =>
                  (after = "error" /\ taxSession'.incomes = taxSession.incomes)
             /\ after = "processed" => (extraction[d].hasData /\ before # "error")]_vars

\* C28: for filing status qss, in a year of the data, the federal constants
\* and the state constants both carry the married-filing-jointly bracket
\* table and the married-filing-jointly standard deduction.
C28_QssUsesMfjThroughout ==
  (/\ taxCall # Undefined
   /\ taxCall.filingStatus = "qss"
   /\ taxCall.year \in TaxYears) =>
    LET fedYear == FEDERAL_DATA[taxCall.year]
        v == taxCall.value
    IN  /\ v.fed.brackets = fedYear.brackets.mfj
        /\ v.fed.stdDeduction = fedYear.standardDeduction.mfj
        /\ taxCall.stateId \in {"california", "newYork"} =>
             LET stateYear == StateData(taxCall.stateId)[taxCall.year]
             IN  /\ v.state.brackets = stateYear.brackets.mfj
                 /\ v.state.stdDeduction = stateYear.standardDeduction.mfj

\* the four counts of a summary add up to its total
CountsAddUp(summary) ==
  summary.passed + summary.failed + summary.warnings + summary.skipped = summary.total

\* C29: in every result of runRulesEngine the counts of the combined summary
\* and of the compliance summary add up to their totals, the combined total
\* is the number of applicable rules, and the compliance total and the
\* savings total add up to the combined total, also when a check threw.
C29_CountsPartitionResults ==
  (engineResult # Undefined /\ engineResult.fn = "runRulesEngine") =>
    LET v == engineResult.value
    IN  /\ CountsAddUp(v.summary)
        /\ CountsAddUp(v.complianceSummary)
        /\ v.summary.total = Len(v.results)
        /\ v.summary.total = Len(ApplicableRules(RULES, engineResult.scenarioFilter))
        /\ v.complianceSummary.total + v.savingsSummary.total = v.summary.total
        /\ v.savingsSummary.evaluated + v.savingsSummary.skipped = v.savingsSummary.total

C29_Witness ==
  /\ engineResult # Undefined
  /\ engineResult.fn = "runRulesEngine"
  /\ engineResult.scenarioFilter = "fed-w2"
  /\ \E k \in 1..Len(engineResult.value.results) :
       engineResult.value.results[k].detail.prefix = "Error running check: "
  /\ engineResult.value.summary.passed > 0
  /\ engineResult.value.summary.failed > 0
  /\ engineResult.value.summary.warnings > 0
  /\ engineResult.value.summary.skipped > 0
  /\ engineResult.value.savingsSummary.total > 0

\* ------------------------------------------------------------------------
\* wizard.js: navigation with any target step
\* ------------------------------------------------------------------------

\* how far outside 1..TOTAL_STEPS the targets of goToStep go
MaxOvershoot == 2

StepTargets == (1 - MaxOvershoot)..(TOTAL_STEPS + MaxOvershoot)

NavSessions ==
  {[DefaultSession EXCEPT !.filingStatus = fs, !.childrenUnder17 = ch,
                          !.incomes = inc, !.itemized = it] :
     fs \in {"single", "mfj"}, ch \in {0, 2},
     inc \in {<<>>, <<W2Doc>>, <<W2Malformed>>}, it \in ItemizedChoices}

InitNavigation ==
  /\ taxSession \in NavSessions
  /\ extraction = <<>>
  /\ gapRendered = <<>>
  /\ genPc = "idle"
  /\ EngineIdle

NextNavigation ==
  \/ NextStep
  \/ PrevStep
  \/ \E n \in StepTargets : GoToStep(n)

SpecNavigation == InitNavigation /\ [][NextNavigation]_vars

\* C30: session.currentStep stays within 1..TOTAL_STEPS under nextStep,
\* prevStep and goToStep, and a call whose target is outside that range
\* changes nothing: nextStep at the last step and prevStep at the first are
\* no-ops.
C30_StepStaysInRange ==
  [][/\ taxSession.currentStep \in 1..TOTAL_STEPS
     /\ taxSession'.currentStep \in 1..TOTAL_STEPS
     /\ \A n \in StepTargets \ (1..TOTAL_STEPS) : GoToStep(n) => UNCHANGED vars
     /\ (taxSession.currentStep = TOTAL_STEPS /\ NextStep) => UNCHANGED vars
     /\ (taxSession.currentStep = 1 /\ PrevStep) => UNCHANGED vars]_vars

C30_Witness ==
  /\ taxSession.currentStep = TOTAL_STEPS
  /\ taxSession.filing # Undefined
  /\ gapRendered # <<>>
  /\ taxSession.incomes # <<>>

====
